---- MODULE Spec2Model ----
(***************************************************************************)
(* Model Gateway of the Observer API server: the in-memory quota ledger    *)
(* (quota_manager.py), the handler registry (api_handlers.py), the vendor  *)
(* adapters (gemini / gemini-pro / fireworks / openrouter handlers) and    *)
(* the chat-completions dispatcher with its quota endpoint and its         *)
(* in-memory metrics log (api/compute.py).                                 *)
(*                                                                         *)
(* Ledger callers are processes: OS threads that call the ledger API       *)
(* directly (LThreads) and HTTP requests served by the single event loop   *)
(* (Reqs).  A process is inside a ledger call between the acquisition and  *)
(* the release of _lock; the statements of increment_usage are separate    *)
(* steps, so that mutual exclusion is something the model checks rather    *)
(* than assumes.  Requests are coroutines: between two awaits a request    *)
(* owns the event loop (running) and no other request takes a step.        *)
(***************************************************************************)
EXTENDS Integers, Sequences, FiniteSets, TLC

\* ------------------------------------------------------------------ bounds
\* last calendar day the clock reaches (the clock starts at day 1)
MaxDay == 2
\* number of direct increment_usage calls per behaviour of the ledger threads
MaxOps == 3
\* number of chat requests per behaviour of the server
MaxChats == 2

Users == {"u1", "u2"}
LThreads == {"t1", "t2"}
Reqs == {"r1", "r2"}
Procs == LThreads \cup Reqs
Services == {"chat", "sms", "email"}
NoProc == "none"

\* ------------------------------------------------------- program constants
\* quota_manager.py: QUOTA_LIMITS
QUOTA_LIMITS == [chat |-> 30, sms |-> 10, email |-> 20]
\* compute.py: the anti-abuse ceiling of a pro principal
PRO_LIMIT == 1000
\* compute.py: capacity of _conversation_metrics
METRICS_CAP == 1000
\* compute.py: the import of api_handlers succeeded
HANDLERS_AVAILABLE == TRUE

\* ------------------------------------------------------------ dict helpers
EmptyDict == <<>>

\* d.get(u, {}).get(s, 0)
UsageOf(d, u, s) ==
    IF u \in DOMAIN d /\ s \in DOMAIN d[u] THEN d[u][s] ELSE 0

\* d.setdefault(u, {})
SetDefault(d, u) ==
    IF u \in DOMAIN d THEN d
    ELSE [k \in DOMAIN d \cup {u} |-> IF k = u THEN EmptyDict ELSE d[k]]

\* the write that lands in the service slot of every user in the dict
PutShared(d, u, s, v) ==
    [k \in DOMAIN d \cup {u} |->
        LET us == IF k \in DOMAIN d THEN d[k] ELSE EmptyDict
        IN [j \in DOMAIN us \cup {s} |-> IF j = s THEN v ELSE us[j]]]

\* d[u][s] = v   (d[u] exists)
Put(d, u, s, v) ==
    LET us == IF u \in DOMAIN d THEN d[u] ELSE EmptyDict
        nu == [j \in DOMAIN us \cup {s} |-> IF j = s THEN v ELSE us[j]]
    IN [k \in DOMAIN d \cup {u} |-> IF k = u THEN nu ELSE d[k]]

RangeOf(q) == {q[i] : i \in DOMAIN q}

\* ------------------------------------------------------------------- state
VARIABLES
    \* quota_manager.py
    user_daily_usage,   \* _user_daily_usage: user -> (service -> count)
    current_day,        \* _current_day: the stored day marker
    lock,               \* _lock: the process holding it, or NoProc
    \* environment
    today,              \* datetime.date.today()
    api_key,            \* handler name -> the credential was in the environment
    \* processes
    pc,                 \* position of every thread and request
    arg,                \* (user, service) of the ledger call in progress
    cur,                \* increment_usage: current_usage
    ret,                \* value the ledger call in progress returns
    \* event loop and requests
    running,            \* the request that owns the event loop, or NoProc
    principal,          \* current_user of each request
    body,               \* request_data of each request
    reply,              \* what the client of each request is answered
    handler,            \* selected_handler of each request
    metrics,            \* _conversation_metrics
    \* history
    returned,           \* (user, service) -> values returned by increment_usage since the last reset
    incDay,             \* (user, service) -> day marker under which the count was last written
    incs,               \* request -> increment_usage calls it has completed
    invoked,            \* request -> handle_request of its handler was entered
    called,             \* request -> the outbound vendor call was started
    outcome,            \* request -> how its outbound vendor call ended
    budget,             \* ledger increments still allowed in this behaviour
    \* streaming relay (the generator behind a StreamingResponse)
    relayOf,            \* the handler whose relay runs, or NoHandler
    rpc,                \* position of the relay generator
    conn,               \* the relay's vendor connection: none, open, released
    arrived,            \* vendor lines received so far, in arrival order
    frames,             \* frames yielded to the client so far, in order
    \* audit log
    metrics_lock,       \* _metrics_lock: the process holding it, or NoProc
    logArg,             \* thread -> the entry its log_conversation_metrics call records
    logged,             \* every entry ever appended to _conversation_metrics, in order (history)
    \* community/compute.py
    request_count,      \* table request_count: ip -> count
    creq,               \* the request the community endpoint is serving
    \* one adapter call seen on its own
    adapter             \* the call: its request, the payload sent, the vendor's answer, the response

ledgerVars == <<user_daily_usage, current_day, lock, returned, incDay>>
procVars == <<pc, arg, cur, ret>>
reqVars == <<running, principal, body, reply, handler, metrics, incs, invoked, called, outcome>>
envVars == <<today, api_key, budget>>
relayVars == <<relayOf, rpc, conn, arrived, frames>>
auditVars == <<metrics_lock, logArg>>
communityVars == <<request_count, creq>>
adapterVars == <<adapter>>
auxVars == <<relayVars, auditVars, communityVars, adapterVars>>
vars == <<ledgerVars, procVars, reqVars, envVars, auxVars, logged>>

Pairs == Users \X Services
NoArg == [user |-> "", service |-> ""]

\* --------------------------------------------------------- quota_manager.py
\* the with block entered without waiting for the lock
MutexFreeUnguarded(l) == TRUE

\* `with _lock:` may be entered
MutexFree(l) == l = NoProc

\* a with block left without releasing the lock
WithExitKeeps(l) == l

\* the end of a `with _lock:` block: the lock is released
WithExit(l) == NoProc

\* the day check that moves the marker and forgets to clear the dict
ResetUsageKeeps(d, day, marker) == d

\* _check_and_reset_if_new_day: the usage dict after the day check
ResetUsage(d, day, marker) == IF day # marker THEN EmptyDict ELSE d

\* _check_and_reset_if_new_day: the day marker after the day check
ResetDay(day, marker) == IF day # marker THEN day ELSE marker

\* the history of returned values follows the usage dict through a reset
ResetReturned(h, day, marker) ==
    IF day # marker THEN [k \in Pairs |-> <<>>] ELSE h

\* increment_usage: new_usage = current_usage + 1
NewUsage(c) == c + 1

\* A thread calls increment_usage(user_id, service)
ThreadCallInc(t, u, s) ==
    /\ t \in LThreads
    /\ pc[t] = "idle"
    /\ budget > 0
    /\ budget' = budget - 1
    /\ pc' = [pc EXCEPT ![t] = "inc_lock"]
    /\ arg' = [arg EXCEPT ![t] = [user |-> u, service |-> s]]
    /\ UNCHANGED <<ledgerVars, cur, ret, reqVars, today, api_key>>
    /\ UNCHANGED auxVars
    /\ UNCHANGED logged

\* increment_usage: with _lock
IncAcquire(p) ==
    /\ pc[p] = "inc_lock"
    /\ MutexFree(lock)
    /\ lock' = p
    /\ pc' = [pc EXCEPT ![p] = "inc_check"]
    /\ UNCHANGED <<user_daily_usage, current_day, returned, incDay, arg, cur, ret, reqVars, envVars>>
    /\ UNCHANGED auxVars
    /\ UNCHANGED logged

\* increment_usage: _check_and_reset_if_new_day()
IncCheck(p) ==
    /\ pc[p] = "inc_check"
    /\ user_daily_usage' = ResetUsage(user_daily_usage, today, current_day)
    /\ current_day' = ResetDay(today, current_day)
    /\ returned' = ResetReturned(returned, today, current_day)
    /\ pc' = [pc EXCEPT ![p] = "inc_read"]
    /\ UNCHANGED <<lock, incDay, arg, cur, ret, reqVars, envVars>>
    /\ UNCHANGED auxVars
    /\ UNCHANGED logged

\* increment_usage: user_services = setdefault(...); current_usage = get(service, 0)
IncRead(p) ==
    /\ pc[p] = "inc_read"
    /\ user_daily_usage' = SetDefault(user_daily_usage, arg[p].user)
    /\ cur' = [cur EXCEPT ![p] = UsageOf(user_daily_usage, arg[p].user, arg[p].service)]
    /\ pc' = [pc EXCEPT ![p] = "inc_write"]
    /\ UNCHANGED <<current_day, lock, returned, incDay, arg, ret, reqVars, envVars>>
    /\ UNCHANGED auxVars
    /\ UNCHANGED logged

\* increment_usage: user_services[service] = new_usage
IncWrite(p) ==
    /\ pc[p] = "inc_write"
    /\ user_daily_usage' = Put(user_daily_usage, arg[p].user, arg[p].service, NewUsage(cur[p]))
    /\ ret' = [ret EXCEPT ![p] = NewUsage(cur[p])]
    /\ incDay' = [incDay EXCEPT ![<<arg[p].user, arg[p].service>>] = current_day]
    /\ pc' = [pc EXCEPT ![p] = "inc_ret"]
    /\ UNCHANGED <<current_day, lock, returned, arg, cur, reqVars, envVars>>
    /\ UNCHANGED auxVars
    /\ UNCHANGED logged

\* increment_usage: return new_usage (leaves the with block)
IncReturn(p) ==
    /\ pc[p] = "inc_ret"
    /\ lock' = WithExit(lock)
    /\ returned' = [returned EXCEPT ![<<arg[p].user, arg[p].service>>] = Append(@, ret[p])]
    /\ arg' = [arg EXCEPT ![p] = NoArg]
    /\ cur' = [cur EXCEPT ![p] = 0]
    /\ ret' = [ret EXCEPT ![p] = 0]
    /\ IF p \in Reqs
       THEN \* compute.py: usage_count = increment_usage(...); then await request.json()
            /\ pc' = [pc EXCEPT ![p] = "await_json"]
            /\ incs' = [incs EXCEPT ![p] = @ + 1]
            /\ running' = NoProc
       ELSE /\ pc' = [pc EXCEPT ![p] = "idle"]
            /\ UNCHANGED <<incs, running>>
    /\ UNCHANGED <<user_daily_usage, current_day, incDay, principal, body, reply, handler,
                   metrics, invoked, called, outcome, envVars>>
    /\ UNCHANGED auxVars
    /\ UNCHANGED logged

\* A thread calls get_usage_for_service(user_id, service)
ThreadCallGet(t, u, s) ==
    /\ t \in LThreads
    /\ pc[t] = "idle"
    /\ pc' = [pc EXCEPT ![t] = "get_lock"]
    /\ arg' = [arg EXCEPT ![t] = [user |-> u, service |-> s]]
    /\ UNCHANGED <<ledgerVars, cur, ret, reqVars, envVars>>
    /\ UNCHANGED auxVars
    /\ UNCHANGED logged

\* get_usage_for_service: with _lock
GetAcquire(p) ==
    /\ pc[p] = "get_lock"
    /\ MutexFree(lock)
    /\ lock' = p
    /\ pc' = [pc EXCEPT ![p] = "get_check"]
    /\ UNCHANGED <<user_daily_usage, current_day, returned, incDay, arg, cur, ret, reqVars, envVars>>
    /\ UNCHANGED auxVars
    /\ UNCHANGED logged

\* get_usage_for_service: _check_and_reset_if_new_day()
GetCheck(p) ==
    /\ pc[p] = "get_check"
    /\ user_daily_usage' = ResetUsage(user_daily_usage, today, current_day)
    /\ current_day' = ResetDay(today, current_day)
    /\ returned' = ResetReturned(returned, today, current_day)
    /\ pc' = [pc EXCEPT ![p] = "get_read"]
    /\ UNCHANGED <<lock, incDay, arg, cur, ret, reqVars, envVars>>
    /\ UNCHANGED auxVars
    /\ UNCHANGED logged

\* the lookup that removes the user's entry, as dict.pop(user_id, {}) would
AfterGetPops(d, u) == [k \in DOMAIN d \ {u} |-> d[k]]

\* get_usage_for_service: the usage dict after _user_daily_usage.get(user_id, {})
AfterGet(d, u) == d

\* get_usage_for_service: the value of user_services.get(service, 0)
GetRead(p) ==
    /\ pc[p] = "get_read"
    /\ user_daily_usage' = AfterGet(user_daily_usage, arg[p].user)
    /\ ret' = [ret EXCEPT ![p] = UsageOf(user_daily_usage, arg[p].user, arg[p].service)]
    /\ pc' = [pc EXCEPT ![p] = "get_ret"]
    /\ UNCHANGED <<current_day, lock, returned, incDay, arg, cur, reqVars, envVars>>
    /\ UNCHANGED auxVars
    /\ UNCHANGED logged

\* the calendar day changes
Tick ==
    /\ today < MaxDay
    /\ today' = today + 1
    /\ UNCHANGED <<ledgerVars, procVars, reqVars, api_key, budget>>
    /\ UNCHANGED auxVars
    /\ UNCHANGED logged

\* ---------------------------------------------------------- api_handlers.py
\* API_HANDLERS in registration order (the order the handlers are instantiated)
HandlerOrder == <<"gemini", "gemini-pro", "fireworks", "openrouter">>
Handlers == RangeOf(HandlerOrder)
NoHandler == "none"

\* self.models of every handler: display name and the "pro" flag
\* (model_info.get("pro", False) of an entry without the key is False)
HandlerModels ==
    [h \in Handlers |->
       CASE h = "gemini" ->
              << [name |-> "gemma-3-27b-it", pro |-> FALSE],
                 [name |-> "gemma-3n-e4b-it", pro |-> FALSE],
                 [name |-> "gemini-1.5-flash-8b", pro |-> FALSE],
                 [name |-> "gemini-1.5-flash", pro |-> FALSE],
                 [name |-> "gemini-2.0-flash-lite", pro |-> FALSE],
                 [name |-> "gemini-2.5-flash-preview-04-17", pro |-> FALSE] >>
         [] h = "gemini-pro" ->
              << [name |-> "gemma-3-27b-it", pro |-> TRUE],
                 [name |-> "gemini-1.5-flash-8b", pro |-> TRUE],
                 [name |-> "gemini-1.5-flash", pro |-> TRUE],
                 [name |-> "gemini-2.0-flash", pro |-> TRUE],
                 [name |-> "gemini-2.5-flash-lite", pro |-> TRUE],
                 [name |-> "gemini-2.5-flash", pro |-> TRUE],
                 [name |-> "gemini-2.5-pro", pro |-> TRUE] >>
         [] h = "fireworks" ->
              << [name |-> "llama4-scout", pro |-> TRUE],
                 [name |-> "llama4-maverick", pro |-> TRUE],
                 [name |-> "gpt-oss-120b", pro |-> TRUE] >>
         [] h = "openrouter" ->
              << [name |-> "deepseek-r1", pro |-> FALSE],
                 [name |-> "deepseek-v3", pro |-> FALSE],
                 [name |-> "qwq", pro |-> FALSE],
                 [name |-> "deepseek-llama-70b", pro |-> FALSE] >>]

\* BaseAPIHandler.get_models, as the list of display names
ModelNames(h) == {HandlerModels[h][i].name : i \in DOMAIN HandlerModels[h]}

\* exceptions a handler raises: kind and the status_code attribute (0: it has none)
ConfigError == [kind |-> "ConfigError", status_code |-> 500]
BackendAPIError(code) == [kind |-> "BackendAPIError", status_code |-> code]
HandlerError == [kind |-> "HandlerError", status_code |-> 500]
ValueError == [kind |-> "ValueError", status_code |-> 0]

\* ------------------------------------------------------------------ inputs
NoPrincipal == [id |-> "", is_pro |-> FALSE]
Principals == [id : Users, is_pro : BOOLEAN]

\* a request body: the model display name ("" stands for a missing model field),
\* the messages field (missing, an empty list, or a list ending in a text message)
\* and the stream flag
NoBody == [json_ok |-> FALSE, model |-> "", messages |-> "absent", stream |-> FALSE, set |-> FALSE]
Body(m, k, st) == [json_ok |-> TRUE, model |-> m, messages |-> k, stream |-> st, set |-> TRUE]
\* the request bodies the clients send: one that is not JSON, and JSON bodies for
\* a missing model, an unknown one and a model of every handler
Bodies ==
    {[json_ok |-> FALSE, model |-> "", messages |-> "absent", stream |-> FALSE, set |-> TRUE],
     Body("", "text", FALSE),
     Body("no-such-model", "text", FALSE),
     Body("gemma-3-27b-it", "text", FALSE),
     Body("gemma-3-27b-it", "empty", FALSE),
     Body("gemini-2.5-pro", "text", FALSE),
     Body("gemini-2.5-pro", "text", TRUE),
     Body("gemini-2.5-pro", "absent", FALSE),
     Body("llama4-scout", "text", FALSE),
     Body("llama4-scout", "empty", FALSE),
     Body("llama4-scout", "text", TRUE),
     Body("deepseek-r1", "text", FALSE)}

VendorOutcomes ==
    {[kind |-> "status", code |-> c] : c \in ({200, 302, 429, 500})}
    \cup {[kind |-> "RequestError", code |-> 0], [kind |-> "BadJSON", code |-> 200]}

NoOutcome == [kind |-> "none", code |-> 0]

NoReply == [kind |-> "", status |-> 0, used |-> 0, remaining |-> 0, limit |-> 0, detail |-> ""]

\* ---------------------------------------------------------------- adapters
\* an exception leaving handle_request, with what its message is made of: "own"
\* (a text written in the adapter), "vendor" (the text interpolates the vendor's
\* error message) or "cause" (the text interpolates str() of a caught exception)
RaiseFrom(e, t) == [kind |-> "raise", exc |-> e, text |-> t]
Raise(e) == RaiseFrom(e, "own")
Proceed(k) == [kind |-> k, exc |-> ValueError, text |-> ""]

\* handle_request that does not look at the credential
FireworksPrefixNoKeyCheck(b, key) ==
    IF b.model = "" THEN Raise(ValueError)
    ELSE IF b.model \notin ModelNames("fireworks") THEN Raise(ValueError)
    ELSE IF b.stream THEN Proceed("stream")
    ELSE Proceed("call")

\* FireworksAPIHandler.handle_request up to the outbound call
FireworksPrefix(b, key) ==
    IF ~key THEN Raise(ConfigError)
    ELSE IF b.model = "" THEN Raise(ValueError)
    ELSE IF b.model \notin ModelNames("fireworks") THEN Raise(ValueError)
    ELSE IF b.stream THEN Proceed("stream")
    ELSE Proceed("call")

HandlePrefix(h, b, key) ==
    LET \* GeminiAPIHandler.handle_request up to the outbound call; stream is ignored
        GeminiPrefix ==
            IF ~key THEN Raise(ConfigError)
            ELSE IF b.model = "" THEN Raise(ValueError)
            ELSE IF b.messages \in {"absent", "empty"} THEN Raise(ValueError)
            ELSE Proceed("call")
        \* GeminiProAPIHandler.handle_request up to the outbound call
        GeminiProPrefix ==
            IF ~key THEN Raise(ConfigError)
            ELSE IF b.model = "" THEN Raise(ValueError)
            ELSE IF b.messages \in {"absent", "empty"} THEN Raise(ValueError)
            ELSE IF b.stream THEN Proceed("stream")
            ELSE Proceed("call")
        \* OpenRouterAPIHandler.handle_request up to the outbound call
        OpenRouterPrefix ==
            IF ~key THEN Raise(ConfigError)
            ELSE IF b.model = "" THEN Raise(ValueError)
            ELSE IF b.model \notin ModelNames("openrouter") THEN Raise(ValueError)
            ELSE Proceed("call")
    IN
    CASE h = "gemini" -> GeminiPrefix
      [] h = "gemini-pro" -> GeminiProPrefix
      [] h = "fireworks" -> FireworksPrefix(b, key)
      [] h = "openrouter" -> OpenRouterPrefix

\* response.raise_for_status(): every status outside 2xx raises HTTPStatusError
RaisesForStatus(code) == code < 200 \/ code >= 300

\* the except clauses in the wrong order: the catch-all takes the transport failure
CallResultCatchAll(o) ==
    IF o.kind = "RequestError" THEN RaiseFrom(HandlerError, "cause")
    ELSE IF RaisesForStatus(o.code) THEN RaiseFrom(BackendAPIError(o.code), "vendor")
    ELSE IF o.kind = "BadJSON" THEN RaiseFrom(HandlerError, "cause")
    ELSE Proceed("ok")

\* the try/except around the outbound call of the non-streaming path
CallResult(o) ==
    IF o.kind = "RequestError" THEN RaiseFrom(BackendAPIError(503), "cause")
    ELSE IF RaisesForStatus(o.code) THEN RaiseFrom(BackendAPIError(o.code), "vendor")
    ELSE IF o.kind = "BadJSON" THEN RaiseFrom(HandlerError, "cause")
    ELSE Proceed("ok")

\* --------------------------------------------------------------- compute.py
\* the newest entry dropped instead of the oldest
MetricsTrimNewest(m) == IF Len(m) > METRICS_CAP THEN SubSeq(m, 1, Len(m) - 1) ELSE m

\* log_conversation_metrics: pop(0) when the list has grown past METRICS_CAP
MetricsTrim(m) == IF Len(m) > METRICS_CAP THEN Tail(m) ELSE m

\* log_conversation_metrics: append, then keep the last METRICS_CAP entries
LogMetrics(m, e) == MetricsTrim(Append(m, e))

\* the entry log_conversation_metrics appends, by the caller and the status it records
MetricsEntry(u, h, m, code) == [user_id |-> u, status_code |-> code]
NoEntry == MetricsEntry("", NoHandler, "", 0)

\* log_conversation_metrics is called by thread t for user u and status code
LogCall(t, u, code) ==
    /\ t \in LThreads
    /\ pc[t] = "idle"
    /\ budget > 0
    /\ budget' = budget - 1
    /\ pc' = [pc EXCEPT ![t] = "log_lock"]
    /\ logArg' = [logArg EXCEPT ![t] = MetricsEntry(u, NoHandler, "", code)]
    /\ UNCHANGED <<ledgerVars, arg, cur, ret, reqVars, today, api_key, relayVars, metrics_lock, logged,
                   communityVars>>
    /\ UNCHANGED adapterVars

\* log_conversation_metrics: with _metrics_lock
LogAcquire(t) ==
    /\ pc[t] = "log_lock"
    /\ MutexFree(metrics_lock)
    /\ metrics_lock' = t
    /\ pc' = [pc EXCEPT ![t] = "log_append"]
    /\ UNCHANGED <<ledgerVars, arg, cur, ret, reqVars, envVars, relayVars, logArg, logged, communityVars>>
    /\ UNCHANGED adapterVars

\* log_conversation_metrics: _conversation_metrics.append(entry)
LogAppend(t) ==
    /\ pc[t] = "log_append"
    /\ metrics' = Append(metrics, logArg[t])
    /\ logged' = Append(logged, logArg[t])
    /\ pc' = [pc EXCEPT ![t] = "log_trim"]
    /\ UNCHANGED <<ledgerVars, arg, cur, ret, running, principal, body, reply, handler, incs,
                   invoked, called, outcome, envVars, relayVars, auditVars, communityVars>>
    /\ UNCHANGED adapterVars

\* log_conversation_metrics: the length check with pop(0), and the end of the
\* with block
LogTrim(t) ==
    /\ pc[t] = "log_trim"
    /\ metrics' = MetricsTrim(metrics)
    /\ metrics_lock' = WithExit(metrics_lock)
    /\ logArg' = [logArg EXCEPT ![t] = NoEntry]
    /\ pc' = [pc EXCEPT ![t] = IF t \in Reqs THEN "done" ELSE "idle"]
    /\ UNCHANGED <<ledgerVars, arg, cur, ret, running, principal, body, reply, handler, incs,
                   invoked, called, outcome, envVars, relayVars, logged, communityVars>>
    /\ UNCHANGED adapterVars

\* a pro principal held to the free limit
UsageLimitFree(s, is_pro) == QUOTA_LIMITS[s]

\* check_usage(user_id, service, is_pro): the usage has reached the limit of the
\* principal's class (the free limit of the service, the ceiling for a pro principal)
UsageLimit(s, is_pro) == IF is_pro THEN PRO_LIMIT ELSE QUOTA_LIMITS[s]
CheckUsage(d, u, s, is_pro) == UsageOf(d, u, s) >= UsageLimit(s, is_pro)

\* selected_handler: the first registered handler that declares the model name
Candidates(m) == {i \in DOMAIN HandlerOrder : m \in ModelNames(HandlerOrder[i])}
\* the last match instead of the first
LastOf(S) == CHOOSE i \in S : \A j \in S : i >= j

\* next(...): the first match in iteration order
FirstOf(S) == CHOOSE i \in S : \A j \in S : i <= j
SelectHandler(m) ==
    IF Candidates(m) = {} THEN NoHandler ELSE HandlerOrder[FirstOf(Candidates(m))]

\* model_info: the first entry of the selected handler with that name
ModelInfo(h, m) ==
    HandlerModels[h][FirstOf({i \in DOMAIN HandlerModels[h] : HandlerModels[h][i].name = m})]

\* the pro flag of the model ignored
ProDeniedNever(h, m, is_pro) == FALSE

\* pro access control
ProDenied(h, m, is_pro) == ModelInfo(h, m).pro /\ ~is_pro

\* the except clauses around handle_request: the status the client gets
ErrorStatus(e) ==
    IF e.kind \in {"HandlerError", "ConfigError", "BackendAPIError"} THEN e.status_code
    ELSE 500

\* the detail of the HTTPException of the except clauses: str(e) for the handler
\* exceptions, a fixed text for everything else
ErrorDetail(res) ==
    IF res.exc.kind \in {"HandlerError", "ConfigError", "BackendAPIError"} THEN res.text
    ELSE "generic"

\* remaining without the max
RemainingUnclamped(limit, used) == limit - used

\* check_quota_endpoint: remaining = max(0, limit - used)
Remaining(limit, used) == (IF (limit - used) > 0 THEN (limit - used) ELSE 0)

\* the answer of the chat endpoint: a status and, for an HTTPException, its detail
\* ("dispatcher": a text written in the endpoint itself)
ChatReply(code, detail) ==
    [kind |-> "chat", status |-> code, used |-> 0, remaining |-> 0, limit |-> 0, detail |-> detail]

\* check_quota_endpoint: the JSON the endpoint answers
QuotaReply(is_pro, used) ==
    IF is_pro
    THEN [kind |-> "quota", status |-> 200, used |-> 0, remaining |-> "unlimited", limit |-> "unlimited",
          detail |-> ""]
    ELSE [kind |-> "quota", status |-> 200, used |-> used,
          remaining |-> Remaining(QUOTA_LIMITS["chat"], used), limit |-> QUOTA_LIMITS["chat"],
          detail |-> ""]

\* the result of check_usage ignored
GateStatusOpen(exceeded) == 0

\* the quota gate: 429 when check_usage says the limit is reached (0: no answer yet)
GateStatus(exceeded) == IF exceeded THEN 429 ELSE 0

\* pro principals not counted
AfterGateProFree(is_pro) == IF is_pro THEN "await_json" ELSE "inc_lock"

\* where an admitted request goes: every one calls increment_usage
AfterGate(is_pro) == "inc_lock"

\* parsing the body: 400 for a body that is not JSON or has no model
ParseStatus(b) == IF ~b.json_ok \/ b.model = "" THEN 400 ELSE 0

\* an unknown model answered as a bad request
ResolveStatusBadRequest(h) == IF h = NoHandler THEN 400 ELSE 0

\* no handler declares the model: 404
ResolveStatus(h) == IF h = NoHandler THEN 404 ELSE 0

\* handle_chat_completions_endpoint from the parsed body to the first await of the
\* handler (or to the answer, when there is none): what the request does next
Dispatch(b, is_pro, keys) ==
    LET h == SelectHandler(b.model)
        none == [next |-> "done", status |-> 0, handler |-> NoHandler, invoked |-> FALSE, logged |-> FALSE,
                 detail |-> "dispatcher"]
    IN  IF ParseStatus(b) # 0 THEN [none EXCEPT !.status = ParseStatus(b)]
        ELSE IF ResolveStatus(h) # 0 THEN [none EXCEPT !.status = ResolveStatus(h)]
        ELSE IF ProDenied(h, b.model, is_pro) THEN [none EXCEPT !.status = 403, !.handler = h]
        ELSE LET res == HandlePrefix(h, b, keys[h])
                 inv == [none EXCEPT !.handler = h, !.invoked = TRUE]
             IN  CASE res.kind = "raise" ->
                        [inv EXCEPT !.status = ErrorStatus(res.exc), !.logged = TRUE,
                                    !.detail = ErrorDetail(res)]
                   [] res.kind = "stream" ->
                        [inv EXCEPT !.status = 200, !.logged = TRUE, !.detail = ""]
                   [] res.kind = "call" ->
                        [inv EXCEPT !.next = "await_vendor"]

\* the status of a request whose outbound call ended with outcome o
VendorStatus(o) ==
    LET res == CallResult(o)
    IN IF res.kind = "raise" THEN ErrorStatus(res.exc) ELSE 200

\* the detail the client gets with that status
VendorDetail(o) ==
    LET res == CallResult(o)
    IN IF res.kind = "raise" THEN ErrorDetail(res) ELSE ""

\* get_usage_for_service: return (leaves the with block); for a request this is
\* check_quota_endpoint, which answers from the returned value
GetReturn(p) ==
    /\ pc[p] = "get_ret"
    /\ lock' = WithExit(lock)
    /\ arg' = [arg EXCEPT ![p] = NoArg]
    /\ ret' = [ret EXCEPT ![p] = 0]
    /\ IF p \in Reqs
       THEN /\ pc' = [pc EXCEPT ![p] = "done"]
            /\ reply' = [reply EXCEPT ![p] = QuotaReply(FALSE, ret[p])]
       ELSE /\ pc' = [pc EXCEPT ![p] = "idle"]
            /\ UNCHANGED reply
    /\ UNCHANGED <<user_daily_usage, current_day, returned, incDay, cur, running, principal,
                   body, handler, metrics, incs, invoked, called, outcome, envVars>>
    /\ UNCHANGED auxVars
    /\ UNCHANGED logged

\* requests are anonymous: a new one takes the first slot that is idle
FreeSlot(r) == r = "r1" \/ pc["r1"] # "idle"

\* GET /quota arrives and runs to get_usage_for_service
QuotaArrive(r, pr) ==
    /\ r \in Reqs
    /\ pc[r] = "idle"
    /\ FreeSlot(r)
    /\ running = NoProc
    /\ running' = r
    /\ principal' = [principal EXCEPT ![r] = pr]
    /\ IF pr.is_pro
       THEN /\ pc' = [pc EXCEPT ![r] = "done"]
            /\ reply' = [reply EXCEPT ![r] = QuotaReply(TRUE, 0)]
            /\ UNCHANGED arg
       ELSE /\ pc' = [pc EXCEPT ![r] = "get_lock"]
            /\ arg' = [arg EXCEPT ![r] = [user |-> pr.id, service |-> "chat"]]
            /\ UNCHANGED reply
    /\ UNCHANGED <<ledgerVars, cur, ret, body, handler, metrics, incs, invoked, called, outcome, envVars>>
    /\ UNCHANGED auxVars
    /\ UNCHANGED logged

\* POST /v1/chat/completions arrives
ChatArrive(r, pr) ==
    /\ r \in Reqs
    /\ pc[r] = "idle"
    /\ FreeSlot(r)
    /\ running = NoProc
    /\ budget > 0
    /\ budget' = budget - 1
    /\ running' = r
    /\ principal' = [principal EXCEPT ![r] = pr]
    /\ IF HANDLERS_AVAILABLE
       THEN /\ pc' = [pc EXCEPT ![r] = "check"]
            /\ UNCHANGED reply
       ELSE /\ pc' = [pc EXCEPT ![r] = "done"]
            /\ reply' = [reply EXCEPT ![r] = ChatReply(503, "dispatcher")]
    /\ UNCHANGED <<ledgerVars, arg, cur, ret, body, handler, metrics, incs, invoked, called,
                   outcome, today, api_key>>
    /\ UNCHANGED auxVars
    /\ UNCHANGED logged

\* an await between the check and the increment: the loop is given up
LoopAfterCheckYields(r) == NoProc

\* compute.py: nothing is awaited between check_usage and increment_usage, so
\* the event loop stays with the request
LoopAfterCheck(r) == r

\* the quota gate: check_usage under the ledger lock, 429 when it says exceeded,
\* otherwise on to increment_usage; b is the body a rejected request carried
\* (the endpoint never reads it)
ChatCheck(r, b) ==
    /\ r \in Reqs
    /\ pc[r] = "check"
    /\ MutexFree(lock)
    /\ user_daily_usage' = ResetUsage(user_daily_usage, today, current_day)
    /\ current_day' = ResetDay(today, current_day)
    /\ returned' = ResetReturned(returned, today, current_day)
    /\ LET g == GateStatus(CheckUsage(user_daily_usage', principal[r].id, "chat", principal[r].is_pro))
           nxt == AfterGate(principal[r].is_pro)
       IN IF g # 0
          THEN /\ pc' = [pc EXCEPT ![r] = "done"]
               /\ reply' = [reply EXCEPT ![r] = ChatReply(g, "dispatcher")]
               /\ body' = [body EXCEPT ![r] = b]
               /\ UNCHANGED <<arg, running>>
          ELSE /\ pc' = [pc EXCEPT ![r] = nxt]
               /\ arg' = [arg EXCEPT ![r] = IF nxt = "inc_lock"
                                             THEN [user |-> principal[r].id, service |-> "chat"]
                                             ELSE NoArg]
               /\ running' = IF nxt = "inc_lock" THEN LoopAfterCheck(running) ELSE NoProc
               /\ UNCHANGED <<reply, body>>
    /\ UNCHANGED <<lock, incDay, cur, ret, principal, handler, metrics,
                   incs, invoked, called, outcome, envVars>>
    /\ UNCHANGED auxVars
    /\ UNCHANGED logged

\* request.json() completes with body b; the request runs until it is answered
\* or until its handler awaits the vendor
ChatDispatch(r, b) ==
    /\ r \in Reqs
    /\ pc[r] = "await_json"
    /\ running = NoProc
    /\ LET d == Dispatch(b, principal[r].is_pro, api_key)
       IN /\ body' = [body EXCEPT ![r] = b]
          /\ handler' = [handler EXCEPT ![r] = d.handler]
          /\ invoked' = [invoked EXCEPT ![r] = d.invoked]
          /\ pc' = [pc EXCEPT ![r] = d.next]
          /\ metrics' = IF d.logged
                        THEN LogMetrics(metrics, MetricsEntry(principal[r].id, d.handler, b.model, d.status))
                        ELSE metrics
          /\ logged' = IF d.logged
                       THEN Append(logged, MetricsEntry(principal[r].id, d.handler, b.model, d.status))
                       ELSE logged
          /\ IF d.next = "done"
             THEN /\ reply' = [reply EXCEPT ![r] = ChatReply(d.status, d.detail)]
                  /\ running' = r
                  /\ UNCHANGED called
             ELSE /\ called' = [called EXCEPT ![r] = TRUE]
                  /\ UNCHANGED <<reply, running>>
    /\ UNCHANGED <<ledgerVars, arg, cur, ret, principal, incs, outcome, envVars>>
    /\ UNCHANGED auxVars

\* the outbound call of a non-streaming request ends with outcome o
VendorReply(r, o) ==
    /\ r \in Reqs
    /\ pc[r] = "await_vendor"
    /\ running = NoProc
    /\ running' = r
    /\ pc' = [pc EXCEPT ![r] = "done"]
    /\ reply' = [reply EXCEPT ![r] = ChatReply(VendorStatus(o), VendorDetail(o))]
    /\ metrics' = LogMetrics(metrics, MetricsEntry(principal[r].id, handler[r], body[r].model, VendorStatus(o)))
    /\ logged' = Append(logged, MetricsEntry(principal[r].id, handler[r], body[r].model, VendorStatus(o)))
    /\ outcome' = [outcome EXCEPT ![r] = o]
    /\ UNCHANGED <<ledgerVars, arg, cur, ret, principal, body, handler, incs, invoked, called, envVars>>
    /\ UNCHANGED auxVars

\* ChatDispatch with the audit entry recorded step by step under _metrics_lock:
\* reply holds the answer the endpoint gives once the entry is recorded
ChatDispatchLog(r, b) ==
    /\ r \in Reqs
    /\ pc[r] = "await_json"
    /\ running = NoProc
    /\ LET d == Dispatch(b, principal[r].is_pro, api_key)
       IN /\ body' = [body EXCEPT ![r] = b]
          /\ handler' = [handler EXCEPT ![r] = d.handler]
          /\ invoked' = [invoked EXCEPT ![r] = d.invoked]
          /\ pc' = [pc EXCEPT ![r] = IF d.logged THEN "log_lock" ELSE d.next]
          /\ logArg' = [logArg EXCEPT ![r] =
                           IF d.logged
                           THEN MetricsEntry(principal[r].id, d.handler, b.model, d.status)
                           ELSE NoEntry]
          /\ IF d.next = "done"
             THEN /\ reply' = [reply EXCEPT ![r] = ChatReply(d.status, d.detail)]
                  /\ running' = r
                  /\ UNCHANGED called
             ELSE /\ called' = [called EXCEPT ![r] = TRUE]
                  /\ UNCHANGED <<reply, running>>
    /\ UNCHANGED <<ledgerVars, arg, cur, ret, principal, metrics, incs, outcome, envVars>>
    /\ UNCHANGED <<relayVars, metrics_lock, communityVars, logged>>
    /\ UNCHANGED adapterVars

\* VendorReply with the audit entry recorded step by step under _metrics_lock
VendorReplyLog(r, o) ==
    /\ r \in Reqs
    /\ pc[r] = "await_vendor"
    /\ running = NoProc
    /\ running' = r
    /\ pc' = [pc EXCEPT ![r] = "log_lock"]
    /\ reply' = [reply EXCEPT ![r] = ChatReply(VendorStatus(o), VendorDetail(o))]
    /\ logArg' = [logArg EXCEPT ![r] =
                     MetricsEntry(principal[r].id, handler[r], body[r].model, VendorStatus(o))]
    /\ outcome' = [outcome EXCEPT ![r] = o]
    /\ UNCHANGED <<ledgerVars, arg, cur, ret, principal, body, handler, metrics, incs, invoked,
                   called, envVars>>
    /\ UNCHANGED <<relayVars, metrics_lock, communityVars, logged>>
    /\ UNCHANGED adapterVars

\* the answer has gone out: the request ends and gives the event loop back
Close(r) ==
    /\ r \in Reqs
    /\ pc[r] = "done"
    /\ pc' = [pc EXCEPT ![r] = "idle"]
    /\ running' = NoProc
    /\ principal' = [principal EXCEPT ![r] = NoPrincipal]
    /\ body' = [body EXCEPT ![r] = NoBody]
    /\ reply' = [reply EXCEPT ![r] = NoReply]
    /\ handler' = [handler EXCEPT ![r] = NoHandler]
    /\ incs' = [incs EXCEPT ![r] = 0]
    /\ invoked' = [invoked EXCEPT ![r] = FALSE]
    /\ called' = [called EXCEPT ![r] = FALSE]
    /\ outcome' = [outcome EXCEPT ![r] = NoOutcome]
    /\ UNCHANGED <<ledgerVars, arg, cur, ret, metrics, envVars>>
    /\ UNCHANGED auxVars
    /\ UNCHANGED logged

\* ---------------------------------------------------------- streaming relay
\* vendor lines a relay reads from one stream at most
MaxLines == 2

\* a part of a candidate's content: with a "text" key, or without one (inline data)
TextPart(t) == [has_text |-> TRUE, text |-> t]
DataPart == [has_text |-> FALSE, text |-> ""]
\* a candidate of a vendor chunk; finishReason "" stands for a missing key
Candidate(ps, fr) == [parts |-> ps, finishReason |-> fr]

\* a line `data: {...}` whose JSON is an object; model "" stands for a missing key
ChunkLine(cs, m) == [kind |-> "chunk", candidates |-> cs, model |-> m]
\* the other lines: "malformed" (`data: ` followed by text that is not JSON), "done"
\* (`data: [DONE]`), "scalar" (`data: ` followed by a JSON number) and "other" (a
\* line without the `data: ` prefix, such as the blank line between events)
PlainLine(k) == [kind |-> k, candidates |-> <<>>, model |-> ""]

\* the lines the vendors send
VendorLines ==
    {ChunkLine(<<Candidate(<<TextPart("Hi")>>, "")>>, "accounts/fireworks/models/llama4-scout"),
     ChunkLine(<<Candidate(<<>>, "STOP")>>, ""),
     ChunkLine(<<Candidate(<<TextPart("Hel"), DataPart, TextPart("lo")>>, "MAX_TOKENS"),
                 Candidate(<<TextPart("other")>>, "SAFETY")>>, ""),
     ChunkLine(<<Candidate(<<DataPart>>, "SAFETY")>>, ""),
     ChunkLine(<<Candidate(<<TextPart("quote")>>, "RECITATION")>>, ""),
     ChunkLine(<<>>, ""),
     PlainLine("malformed"),
     PlainLine("done"),
     PlainLine("scalar"),
     PlainLine("other")}

DoneFrame == [kind |-> "done"]
ErrorFrame(k) == [kind |-> "error", of |-> k]

\* _convert_gemini_chunk_to_openai: text_content, the texts of the parts in order
RECURSIVE TextContent(_)
TextContent(ps) ==
    IF ps = <<>> THEN ""
    ELSE (IF Head(ps).has_text THEN Head(ps).text ELSE "") \o TextContent(Tail(ps))

\* the vendor's finishReason passed on as it is
FinishReasonRaw(fr) == fr

\* _convert_gemini_chunk_to_openai: finish_reason ("" stands for None)
FinishReason(fr) ==
    IF fr = "" THEN ""
    ELSE IF fr = "MAX_TOKENS" THEN "length"
    ELSE IF fr = "SAFETY" THEN "content_filter"
    ELSE "stop"

Lower(s) ==
    CASE s = "STOP" -> "stop"
      [] s = "MAX_TOKENS" -> "max_tokens"
      [] s = "SAFETY" -> "safety"
      [] s = "RECITATION" -> "recitation"
      [] s = "UNSPECIFIED" -> "unspecified"
      [] OTHER -> s

\* handle_request of gemini-pro, non-streaming: finish_reason of the response
\* for the first candidate's finishReason (a missing key reads as "STOP")
FinishReasonNonStreaming(fr) ==
    LET \* str.upper() and str.lower() on the finish reasons a vendor sends
        Upper(s) ==
            CASE s = "stop" -> "STOP"
              [] s = "max_tokens" -> "MAX_TOKENS"
              [] s = "safety" -> "SAFETY"
              [] s = "recitation" -> "RECITATION"
              [] OTHER -> s
    IN
    LET finish_reason_gemini == Upper(IF fr = "" THEN "STOP" ELSE fr)
    IN IF finish_reason_gemini = "MAX_TOKENS" THEN "length"
       ELSE IF finish_reason_gemini = "SAFETY" THEN "content_filter"
       ELSE IF finish_reason_gemini \notin {"STOP", "UNSPECIFIED"} THEN Lower(finish_reason_gemini)
       ELSE "stop"

\* _convert_gemini_chunk_to_openai
ConvertGeminiChunkToOpenai(l) ==
    LET OpenaiChunk(text, fin) ==
            [kind |-> "chunk", has_content |-> text # "", content |-> text,
             has_finish |-> fin # "", finish_reason |-> fin]
    IN
    IF l.candidates = <<>> THEN ([kind |-> "none"])
    ELSE OpenaiChunk(TextContent(l.candidates[1].parts), FinishReason(l.candidates[1].finishReason))

\* what one line makes the generator do: the frames it yields and whether the
\* generator ends
Step(out, abort) == [yield |-> out, abort |-> abort]

\* a JSON error that ends the stream like any other exception
OnDecodeErrorAbort(h, l) == Step(<<ErrorFrame("Exception")>>, TRUE)

\* except json.JSONDecodeError inside the loop: skip (gemini-pro) or forward as-is
\* (fireworks)
OnDecodeError(h, l) ==
    IF h = "gemini-pro" THEN Step(<<>>, FALSE) ELSE Step(<<([kind |-> "raw", payload |-> l])>>, FALSE)

\* the chunk forwarded with the vendor's model id left in it
DisplayModelKeeps(l, name) == l

\* the display name the fireworks relay writes into a chunk that has a model key
DisplayModel(l, name) == IF l.model # "" THEN [l EXCEPT !.model = name] ELSE l

StreamLine(h, l) ==
    LET \* the body of `async for line in response.aiter_lines()` of _stream_gemini_response
        GeminiLine ==
            CASE l.kind = "other" -> Step(<<>>, FALSE)
              [] l.kind \in {"malformed", "done"} -> OnDecodeError("gemini-pro", l)
              [] l.kind = "scalar" -> Step(<<ErrorFrame("Exception")>>, TRUE)
              [] l.kind = "chunk" ->
                    IF ConvertGeminiChunkToOpenai(l) = ([kind |-> "none"]) THEN Step(<<>>, FALSE)
                    ELSE Step(<<ConvertGeminiChunkToOpenai(l)>>, FALSE)
        \* the body of `async for line in response.aiter_lines()` of _stream_fireworks_response
        FireworksLine ==
            CASE l.kind = "other" -> Step(<<>>, FALSE)
              [] l.kind = "done" -> Step(<<DoneFrame>>, FALSE)
              [] l.kind = "malformed" -> OnDecodeError("fireworks", l)
              [] l.kind = "scalar" -> Step(<<ErrorFrame("Exception")>>, TRUE)
              [] l.kind = "chunk" -> Step(<<([kind |-> "json", payload |-> (DisplayModel(l, "llama4-scout"))])>>, FALSE)
    IN
    IF h = "gemini-pro" THEN GeminiLine ELSE FireworksLine

\* frames put in front of the ones already sent
YieldFirst(fs, out, src) == [i \in 1..Len(out) |-> [src |-> src, data |-> out[i]]] \o fs

\* yield: the frames go to the client after the ones already sent; src is the
\* number of the vendor line they come from (0: none)
Yield(fs, out, src) == fs \o [i \in 1..Len(out) |-> [src |-> src, data |-> out[i]]]

\* handle_request returns the StreamingResponse: the endpoint records the request
\* with status 200 and hands the response back, and its generator starts
RelayStart(h) ==
    /\ rpc = "idle"
    /\ relayOf' = h
    /\ rpc' = "connect"
    /\ metrics' = LogMetrics(metrics, MetricsEntry("u1", h, "", 200))
    /\ logged' = Append(logged, MetricsEntry("u1", h, "", 200))
    /\ UNCHANGED <<conn, arrived, frames>>
    /\ UNCHANGED <<running, principal, body, reply, handler, incs, invoked, called, outcome>>
    /\ UNCHANGED <<ledgerVars, procVars, envVars>>
    /\ UNCHANGED <<auditVars, communityVars>>
    /\ UNCHANGED adapterVars

\* client.stream and raise_for_status: the stream opens, or an except clause
\* yields its error frame and the generator ends
RelayConnect(o) ==
    /\ rpc = "connect"
    /\ IF o = "ok"
       THEN /\ rpc' = "lines"
            /\ conn' = "open"
            /\ UNCHANGED frames
       ELSE /\ rpc' = "failed"
            /\ conn' = IF o = "HTTPStatusError" THEN "released" ELSE conn
            /\ frames' = Yield(frames, <<ErrorFrame(o)>>, 0)
    /\ UNCHANGED <<relayOf, arrived>>
    /\ UNCHANGED <<ledgerVars, procVars, reqVars, envVars>>
    /\ UNCHANGED <<auditVars, logged, communityVars>>
    /\ UNCHANGED adapterVars

\* the next vendor line arrives and the loop body runs on it
RelayLine(l) ==
    /\ rpc = "lines"
    /\ Len(arrived) < MaxLines
    /\ arrived' = Append(arrived, l)
    /\ frames' = Yield(frames, StreamLine(relayOf, l).yield, Len(arrived) + 1)
    /\ rpc' = IF StreamLine(relayOf, l).abort THEN "failed" ELSE "lines"
    /\ conn' = IF StreamLine(relayOf, l).abort THEN "released" ELSE conn
    /\ UNCHANGED relayOf
    /\ UNCHANGED <<ledgerVars, procVars, reqVars, envVars>>
    /\ UNCHANGED <<auditVars, logged, communityVars>>
    /\ UNCHANGED adapterVars

\* the vendor stream ends normally
RelayEof ==
    /\ rpc = "lines"
    /\ frames' = Yield(frames, (IF relayOf = "gemini-pro" THEN <<DoneFrame>> ELSE <<>>), 0)
    /\ rpc' = "eof"
    /\ conn' = "released"
    /\ UNCHANGED <<relayOf, arrived>>
    /\ UNCHANGED <<ledgerVars, procVars, reqVars, envVars>>
    /\ UNCHANGED <<auditVars, logged, communityVars>>
    /\ UNCHANGED adapterVars

\* the vendor stream breaks while lines are read (connection lost, read timeout)
RelayFail(k) ==
    /\ rpc = "lines"
    /\ frames' = Yield(frames, <<ErrorFrame(k)>>, 0)
    /\ rpc' = "failed"
    /\ conn' = "released"
    /\ UNCHANGED <<relayOf, arrived>>
    /\ UNCHANGED <<ledgerVars, procVars, reqVars, envVars>>
    /\ UNCHANGED <<auditVars, logged, communityVars>>
    /\ UNCHANGED adapterVars

\* the cancellation caught by `except Exception`, which answers with an error frame
CancelFramesCaught == <<ErrorFrame("Exception")>>

\* the frames the generator yields when it is cancelled or closed: neither
\* CancelledError nor GeneratorExit is an Exception, so no except clause runs
CancelFrames == <<>>

\* the client disconnects: the generator is cancelled where it is suspended and
\* the exception leaves through both `async with` blocks
RelayDisconnect ==
    /\ rpc \in {"connect", "lines"}
    /\ rpc' = "cancelled"
    /\ frames' = Yield(frames, CancelFrames, 0)
    /\ conn' = IF conn = "open" THEN "released" ELSE conn
    /\ UNCHANGED <<relayOf, arrived>>
    /\ UNCHANGED <<ledgerVars, procVars, reqVars, envVars>>
    /\ UNCHANGED <<auditVars, logged, communityVars>>
    /\ UNCHANGED adapterVars

\* model_map of the pass-through handlers: display name to vendor model id
ModelMap(h) ==
    IF h = "fireworks"
    THEN ("llama4-scout" :> "accounts/fireworks/models/llama4-scout-instruct-basic")
         @@ ("llama4-maverick" :> "accounts/fireworks/models/llama4-maverick-instruct-basic")
         @@ ("gpt-oss-120b" :> "accounts/fireworks/models/gpt-oss-120b")
    ELSE ("deepseek-r1" :> "deepseek/deepseek-r1:free")
         @@ ("deepseek-v3" :> "deepseek/deepseek-chat:free")
         @@ ("qwq" :> "qwen/qwq-32b:free")
         @@ ("deepseek-llama-70b" :> "deepseek/deepseek-r1-distill-llama-70b:free")

ClientRequests(h) ==
    LET \* the request_data the dispatcher passes on: model, messages and any of the parameters
        ClientRequest(m, S) ==
            [k \in {"model", "messages"} \cup S |->
                IF k = "model" THEN m ELSE IF k = "messages" THEN "[...]" ELSE (("max_tokens" :> "256") @@ ("top_p" :> "0.5") @@ ("top_k" :> "null") @@ ("presence_penalty" :> "0") @@ ("frequency_penalty" :> "1") @@ ("temperature" :> "0"))[k]]
    IN
    {ClientRequest(m, S) : m \in DOMAIN ModelMap(h), S \in SUBSET ({"max_tokens", "top_p", "top_k", "presence_penalty", "frequency_penalty", "temperature"})}

\* the default written over what the client sent
SetDefaultParamOverwrites(payload, k, v) ==
    [j \in DOMAIN payload \cup {k} |-> IF j = k THEN v ELSE payload[j]]

\* if k not in payload: payload[k] = v
SetDefaultParam(payload, k, v) ==
    IF k \in DOMAIN payload THEN payload
    ELSE [j \in DOMAIN payload \cup {k} |-> IF j = k THEN v ELSE payload[j]]

PassThroughPayload(h, request_data) ==
    LET \* FireworksAPIHandler.handle_request: the payload sent to the vendor
        FireworksPayload ==
            LET p0 == [request_data EXCEPT !["model"] = ModelMap("fireworks")[request_data["model"]]]
                p1 == SetDefaultParam(p0, "max_tokens", "16384")
                p2 == SetDefaultParam(p1, "top_p", "1")
                p3 == SetDefaultParam(p2, "top_k", "40")
                p4 == SetDefaultParam(p3, "presence_penalty", "0")
                p5 == SetDefaultParam(p4, "frequency_penalty", "0")
            IN SetDefaultParam(p5, "temperature", "0.6")
    IN
    IF h = "fireworks" THEN FireworksPayload ELSE ([request_data EXCEPT !["model"] = ModelMap("openrouter")[request_data["model"]]])

BlockedText(reason) == <<"[", "R", "e", "q", "u", "e", "s", "t", " ", "b", "l", "o", "c", "k", "e", "d", " ", "d", "u", "e", " ", "t", "o", ":", " ">> \o reason \o <<"]">>
ParseErrorText == <<"[", "E", "r", "r", "o", "r", " ", "e", "x", "t", "r", "a", "c", "t", "i", "n", "g", " ", "r", "e", "s", "p", "o", "n", "s", "e", " ", "t", "e", "x", "t", "]">>

\* "".join(part.get("text", "") for part in parts)
RECURSIVE JoinTexts(_)
JoinTexts(ps) ==
    IF ps = <<>> THEN <<>>
    ELSE (IF Head(ps).has_text THEN Head(ps).text ELSE <<>>) \o JoinTexts(Tail(ps))

\* str.strip()
Strip(t) ==
    LET keep == {i \in 1..Len(t) : t[i] \notin ({" ", "\n"})}
    IN IF keep = {} THEN <<>>
       ELSE SubSeq(t, CHOOSE i \in keep : \A j \in keep : i <= j,
                      CHOOSE i \in keep : \A j \in keep : i >= j)

\* a vendor answer of generateContent; blockReason <<>> stands for no promptFeedback
GeminiAnswer(cs, um, br) == [candidates |-> cs, usageMetadata |-> um, blockReason |-> br]
GeminiAnswers ==
    {GeminiAnswer(cs, um, <<>>) :
        cs \in {<<Candidate(<<TextPart(<<"4">>)>>, "STOP")>>,
                <<Candidate(<<TextPart(<<" ", "H", "e", "l">>), DataPart, TextPart(<<"l", "o", "\n">>)>>,
                            "MAX_TOKENS")>>,
                <<Candidate(<<>>, "")>>,
                <<Candidate(<<TextPart(<<"q", "u", "o", "t", "e">>)>>, "RECITATION")>>},
        um \in ({<<>>, ("promptTokenCount" :> 5) @@ ("candidatesTokenCount" :> 3) @@ ("totalTokenCount" :> 8), ("promptTokenCount" :> 5) @@ ("candidatesTokenCount" :> 3) @@ ("totalTokenCount" :> 10), ("promptTokenCount" :> 5) @@ ("candidatesTokenCount" :> 3)})}
    \cup {GeminiAnswer(<<>>, um, br) : um \in ({<<>>, ("promptTokenCount" :> 5) @@ ("candidatesTokenCount" :> 3) @@ ("totalTokenCount" :> 8), ("promptTokenCount" :> 5) @@ ("candidatesTokenCount" :> 3) @@ ("totalTokenCount" :> 10), ("promptTokenCount" :> 5) @@ ("candidatesTokenCount" :> 3)}), br \in {<<>>, <<"S", "A", "F", "E", "T", "Y">>}}

ChatResponse(text, fin, p, c, t) ==
    [content |-> text, finish_reason |-> fin,
     usage |-> [prompt_tokens |-> p, completion_tokens |-> c, total_tokens |-> t]]
\* GeminiProAPIHandler.handle_request after the vendor's 200 answer
GeminiProResponse(v) ==
    LET \* response_data.get("usageMetadata", {}).get(k, 0)
        UsageMetadata(u, k) == IF k \in DOMAIN u.usageMetadata THEN u.usageMetadata[k] ELSE 0
        generated_text ==
            IF v.candidates # <<>>
            THEN IF v.candidates[1].parts # <<>>
                 THEN Strip(JoinTexts(v.candidates[1].parts)) ELSE <<>>
            ELSE IF v.blockReason # <<>> THEN BlockedText(v.blockReason) ELSE <<>>
        finish_reason ==
            IF v.candidates # <<>> THEN FinishReasonNonStreaming(v.candidates[1].finishReason)
            ELSE IF v.blockReason # <<>> THEN "content_filter" ELSE "stop"
    IN ChatResponse(generated_text, finish_reason,
                    UsageMetadata(v, "promptTokenCount"),
                    UsageMetadata(v, "candidatesTokenCount"),
                    UsageMetadata(v, "totalTokenCount"))

\* Ob-Server GeminiHandler.handle_request after the vendor's 200 answer, for a
\* prompt of prompt_len characters with image_count images
ObGeminiResponse(v, prompt_len, image_count) ==
    LET generated_text ==
            IF v.candidates = <<>> THEN ParseErrorText
            ELSE JoinTexts(v.candidates[1].parts)
        lowered ==
            IF v.candidates = <<>> THEN "stop"
            ELSE Lower(IF v.candidates[1].finishReason = "" THEN "STOP"
                       ELSE v.candidates[1].finishReason)
        finish_reason == IF lowered \notin {"stop", "max_tokens"} THEN lowered ELSE "stop"
    IN ChatResponse(generated_text, finish_reason,
                    (prompt_len \div 4) + (image_count * 256),
                    Len(generated_text) \div 4,
                    (prompt_len \div 4) + (image_count * 256) + (Len(generated_text) \div 4))

NoAdapter ==
    [pc |-> "idle", handler |-> NoHandler, sent |-> <<>>, request |-> <<>>, payload |-> <<>>,
     vendor |-> (GeminiAnswer(<<>>, <<>>, <<>>)), response |-> (ChatResponse(<<>>, "", 0, 0, 0)), prompt_len |-> 0, image_count |-> 0]

\* handle_request of a pass-through adapter is called with request_data and
\* runs to its outbound call; sent keeps what request_data was at the call
AdapterSend(h, request_data, key) ==
    /\ adapter.pc = "idle"
    /\ h \in ({"fireworks", "openrouter"})
    /\ request_data \in ClientRequests(h)
    /\ adapter' =
          IF ~key
          THEN [NoAdapter EXCEPT !.pc = "raised", !.handler = h, !.sent = request_data,
                                 !.request = request_data]
          ELSE [NoAdapter EXCEPT !.pc = "sent", !.handler = h, !.sent = request_data,
                                 !.payload = PassThroughPayload(h, request_data),
                                 !.request = (request_data)]
    /\ UNCHANGED <<ledgerVars, procVars, reqVars, envVars, logged>>
    /\ UNCHANGED <<relayVars, auditVars, communityVars>>

\* the vendor answers 200 with v and the structured-content adapter builds its response
AdapterAnswer(h, v, prompt_len, image_count) ==
    /\ adapter.pc = "idle"
    /\ h \in ({"gemini-pro", "ob-gemini"})
    /\ adapter' =
          [NoAdapter EXCEPT !.pc = "answered", !.handler = h, !.vendor = v,
                            !.prompt_len = prompt_len, !.image_count = image_count,
                            !.response = IF h = "gemini-pro" THEN GeminiProResponse(v)
                                         ELSE ObGeminiResponse(v, prompt_len, image_count)]
    /\ UNCHANGED <<ledgerVars, procVars, reqVars, envVars, logged>>
    /\ UNCHANGED <<relayVars, auditVars, communityVars>>

\* the call is over
AdapterReturn ==
    /\ adapter.pc # "idle"
    /\ adapter' = NoAdapter
    /\ UNCHANGED <<ledgerVars, procVars, reqVars, envVars, logged>>
    /\ UNCHANGED <<relayVars, auditVars, communityVars>>

\* ------------------------------------------------------ community/compute.py
\* FREE_QUOTA: requests an unauthenticated IP may make
FREE_QUOTA == 10

Ips == {"ip1", "ip2"}
\* API_HANDLERS of community/api_handlers.py in registration order
CommunityOrder == <<"gemini", "openrouter">>

NoCreq == [pc |-> "idle", ip |-> "", auth |-> "", authed |-> FALSE, failed |-> FALSE,
           before |-> 0, status |-> 0, invoked |-> FALSE]

\* the statement f raises when check_and_increment_quota is run for ip on table rc
DbFailed(rc, ip, f) ==
    /\ ip # ""
    /\ \/ f = "select"
       \/ f \in {"update", "commit"} /\ rc[ip] < FREE_QUOTA

\* a database error answered as if the quota were available
CheckAndIncrementQuotaFailOpen(rc, ip, f) ==
    IF ip = "" THEN [ok |-> FALSE, counts |-> rc]
    ELSE IF DbFailed(rc, ip, f) THEN [ok |-> TRUE, counts |-> rc]
    ELSE IF rc[ip] >= FREE_QUOTA THEN [ok |-> FALSE, counts |-> rc]
    ELSE [ok |-> TRUE, counts |-> [rc EXCEPT ![ip] = rc[ip] + 1]]

\* check_and_increment_quota: True and the count raised when quota is available;
\* False when it is used up and on every sqlite3.Error (the connection's
\* transaction is rolled back, so the table is as before)
CheckAndIncrementQuota(rc, ip, f) ==
    IF ip = "" THEN [ok |-> FALSE, counts |-> rc]
    ELSE IF DbFailed(rc, ip, f) THEN [ok |-> FALSE, counts |-> rc]
    ELSE IF rc[ip] >= FREE_QUOTA THEN [ok |-> FALSE, counts |-> rc]
    ELSE [ok |-> TRUE, counts |-> [rc EXCEPT ![ip] = rc[ip] + 1]]

\* the community endpoint from the parsed body to its answer, for a vendor call
\* that ends with outcome o when one is made
CommunityHandle(b, keys, o) ==
    LET \* the handler the community endpoint selects
        CommunitySelect(m) ==
            LET S == {i \in DOMAIN CommunityOrder : m \in ModelNames(CommunityOrder[i])}
            IN IF S = {} THEN NoHandler ELSE CommunityOrder[FirstOf(S)]
    IN
    LET h == CommunitySelect(b.model)
        no == [status |-> 400, invoked |-> FALSE]
    IN  IF ~b.json_ok \/ b.model = "" \/ b.messages \in {"absent", "empty"} THEN no
        ELSE IF h = NoHandler THEN no
        ELSE LET res == HandlePrefix(h, b, keys[h])
             IN  IF res.kind = "raise"
                 THEN [status |-> (IF res.exc.kind = "ValueError" THEN 400 ELSE res.exc.status_code), invoked |-> TRUE]
                 ELSE IF CallResult(o).kind = "raise"
                 THEN [status |-> (IF (CallResult(o).exc).kind = "ValueError" THEN 400 ELSE (CallResult(o).exc).status_code), invoked |-> TRUE]
                 ELSE [status |-> 200, invoked |-> TRUE]

\* POST /v1/chat/completions of the community server arrives from ip with code auth
CommunityArrive(ip, auth) ==
    /\ creq.pc = "idle"
    /\ budget > 0
    /\ budget' = budget - 1
    /\ creq' = [NoCreq EXCEPT !.pc = "gate", !.ip = ip, !.auth = auth, !.before = request_count[ip]]
    /\ UNCHANGED <<ledgerVars, procVars, reqVars, today, api_key, relayVars, auditVars, logged,
                   request_count>>
    /\ UNCHANGED adapterVars

\* authentication and quota check: authErr is a database error in
\* is_valid_auth_code, f the statement of check_and_increment_quota that raises
CommunityGate(authErr, f) ==
    /\ creq.pc = "gate"
    /\ LET authed == (IF creq.auth = "" THEN FALSE ELSE IF authErr THEN FALSE ELSE creq.auth = "good")
           q == CheckAndIncrementQuota(request_count, creq.ip, f)
       IN IF authed
          THEN /\ creq' = [creq EXCEPT !.pc = "parse", !.authed = TRUE]
               /\ UNCHANGED request_count
          ELSE /\ request_count' = q.counts
               /\ creq' = [creq EXCEPT !.failed = DbFailed(request_count, creq.ip, f),
                                       !.pc = IF q.ok THEN "parse" ELSE "done",
                                       !.status = IF q.ok THEN 0 ELSE 429]
    /\ UNCHANGED <<ledgerVars, procVars, reqVars, envVars, relayVars, auditVars, logged>>
    /\ UNCHANGED adapterVars

\* the body is read and the request runs to its answer
CommunityAnswer(b, o) ==
    /\ creq.pc = "parse"
    /\ creq' = [creq EXCEPT !.pc = "done",
                            !.status = CommunityHandle(b, api_key, o).status,
                            !.invoked = CommunityHandle(b, api_key, o).invoked]
    /\ UNCHANGED <<ledgerVars, procVars, reqVars, envVars, relayVars, auditVars, logged,
                   request_count>>
    /\ UNCHANGED adapterVars

\* the answer has gone out
CommunityClose ==
    /\ creq.pc = "done"
    /\ creq' = NoCreq
    /\ UNCHANGED <<ledgerVars, procVars, reqVars, envVars, relayVars, auditVars, logged,
                   request_count>>
    /\ UNCHANGED adapterVars

InitWith(configs, ops) ==
    /\ \E c \in {[u \in Users |-> n] : n \in ({0, QUOTA_LIMITS["chat"] - 1})} :
          /\ user_daily_usage = ([u \in {v \in Users : c[v] > 0} |-> [s \in {"chat"} |-> c[u]]])
          /\ returned = [k \in Pairs |-> IF k[2] = "chat" THEN ([i \in 1..c[k[1]] |-> i]) ELSE <<>>]
          /\ incDay = [k \in Pairs |-> IF k[2] = "chat" /\ c[k[1]] > 0 THEN 1 ELSE 0]
    /\ current_day = 1
    /\ today = 1
    /\ lock = NoProc
    /\ api_key \in configs
    /\ pc = [p \in Procs |-> "idle"]
    /\ arg = [p \in Procs |-> NoArg]
    /\ cur = [p \in Procs |-> 0]
    /\ ret = [p \in Procs |-> 0]
    /\ running = NoProc
    /\ principal = [r \in Reqs |-> NoPrincipal]
    /\ body = [r \in Reqs |-> NoBody]
    /\ reply = [r \in Reqs |-> NoReply]
    /\ handler = [r \in Reqs |-> NoHandler]
    /\ incs = [r \in Reqs |-> 0]
    /\ invoked = [r \in Reqs |-> FALSE]
    /\ called = [r \in Reqs |-> FALSE]
    /\ outcome = [r \in Reqs |-> NoOutcome]
    /\ budget = ops
    /\ relayOf = NoHandler
    /\ rpc = "idle"
    /\ conn = "none"
    /\ arrived = <<>>
    /\ frames = <<>>
    /\ metrics_lock = NoProc
    /\ logArg = [p \in Procs |-> NoEntry]
    /\ creq = NoCreq
    /\ adapter = NoAdapter

InitLog(n) ==
    LET \* the audit log after n recordings
        StartLog == [i \in 1..n |-> MetricsEntry(IF i % 2 = 0 THEN "u1" ELSE "u2", NoHandler, "",
                                                     IF i % 3 = 0 THEN 500 ELSE 200)]
    IN
    metrics = StartLog /\ logged = StartLog

\* the ledger API under threads that call it directly
LedgerNext ==
    \/ \E t \in LThreads, u \in Users, s \in Services : ThreadCallInc(t, u, s)
    \/ \E t \in LThreads, u \in Users, s \in Services : ThreadCallGet(t, u, s)
    \/ \E p \in LThreads : IncAcquire(p)
    \/ \E p \in LThreads : IncCheck(p)
    \/ \E p \in LThreads : IncRead(p)
    \/ \E p \in LThreads : IncWrite(p)
    \/ \E p \in LThreads : IncReturn(p)
    \/ \E p \in LThreads : GetAcquire(p)
    \/ \E p \in LThreads : GetCheck(p)
    \/ \E p \in LThreads : GetRead(p)
    \/ \E p \in LThreads : GetReturn(p)
    \/ Tick

LedgerInit == InitWith({[h \in Handlers |-> TRUE]}, MaxOps) /\ InitLog(0) /\ request_count = [ip \in Ips |-> 0]

LedgerSpec == LedgerInit /\ [][LedgerNext]_vars

\* the server: every ledger call is made by a request on the event loop
Next ==
    \/ \E r \in Reqs, pr \in Principals : QuotaArrive(r, pr)
    \/ \E r \in Reqs, pr \in Principals : ChatArrive(r, pr)
    \/ \E r \in Reqs, b \in Bodies : ChatCheck(r, b)
    \/ \E r \in Reqs : IncAcquire(r)
    \/ \E r \in Reqs : IncCheck(r)
    \/ \E r \in Reqs : IncRead(r)
    \/ \E r \in Reqs : IncWrite(r)
    \/ \E r \in Reqs : IncReturn(r)
    \/ \E r \in Reqs : GetAcquire(r)
    \/ \E r \in Reqs : GetCheck(r)
    \/ \E r \in Reqs : GetRead(r)
    \/ \E r \in Reqs : GetReturn(r)
    \/ \E r \in Reqs, b \in Bodies : ChatDispatch(r, b)
    \/ \E r \in Reqs, o \in VendorOutcomes : VendorReply(r, o)
    \/ \E r \in Reqs : Close(r)
    \/ Tick

Init == InitWith(({[h \in Handlers |-> h # "openrouter"], [h \in Handlers |-> FALSE]}), MaxChats) /\ InitLog(0) /\ request_count = [ip \in Ips |-> 0]

Spec == Init /\ [][Next]_vars

\* threads that record audit entries
AuditNext ==
    \/ \E t \in LThreads, u \in Users, code \in {200, 500} : LogCall(t, u, code)
    \/ \E t \in LThreads : LogAcquire(t)
    \/ \E t \in LThreads : LogAppend(t)
    \/ \E t \in LThreads : LogTrim(t)

AuditInit ==
    /\ InitWith({[h \in Handlers |-> TRUE]}, MaxOps)
    /\ \E n \in ({0, METRICS_CAP - 1}) : InitLog(n)
    /\ request_count = [ip \in Ips |-> 0]

AuditSpec == AuditInit /\ [][AuditNext]_vars

\* the community server, one request at a time
CommunityNext ==
    \/ \E ip \in Ips, auth \in ({"", "good", "bad"}) : CommunityArrive(ip, auth)
    \/ \E authErr \in BOOLEAN, f \in ({"none", "select", "update", "commit"}) : CommunityGate(authErr, f)
    \/ \E b \in Bodies, o \in VendorOutcomes : CommunityAnswer(b, o)
    \/ CommunityClose

CommunityInit ==
    /\ InitWith({[h \in Handlers |-> TRUE]}, MaxChats)
    /\ InitLog(0)
    /\ \E n \in ({0, FREE_QUOTA - 1}) : request_count = [ip \in Ips |-> n]

CommunitySpec == CommunityInit /\ [][CommunityNext]_vars

LockBodies == {Body("gemma-3-27b-it", "text", FALSE), Body("gemma-3-27b-it", "empty", FALSE)}
\* the server with both locks taken step by step
LockNext ==
    \/ \E r \in Reqs, pr \in ({[id |-> "u1", is_pro |-> FALSE]}) : QuotaArrive(r, pr)
    \/ \E r \in Reqs, pr \in ({[id |-> "u1", is_pro |-> FALSE]}) : ChatArrive(r, pr)
    \/ \E r \in Reqs, b \in LockBodies : ChatCheck(r, b)
    \/ \E r \in Reqs : IncAcquire(r)
    \/ \E r \in Reqs : IncCheck(r)
    \/ \E r \in Reqs : IncRead(r)
    \/ \E r \in Reqs : IncWrite(r)
    \/ \E r \in Reqs : IncReturn(r)
    \/ \E r \in Reqs : GetAcquire(r)
    \/ \E r \in Reqs : GetCheck(r)
    \/ \E r \in Reqs : GetRead(r)
    \/ \E r \in Reqs : GetReturn(r)
    \/ \E r \in Reqs, b \in LockBodies : ChatDispatchLog(r, b)
    \/ \E r \in Reqs, o \in ({[kind |-> "status", code |-> 200], [kind |-> "status", code |-> 500]}) : VendorReplyLog(r, o)
    \/ \E r \in Reqs : LogAcquire(r)
    \/ \E r \in Reqs : LogAppend(r)
    \/ \E r \in Reqs : LogTrim(r)
    \/ \E r \in Reqs : Close(r)

LockInit ==
    /\ InitWith({[h \in Handlers |-> TRUE]}, MaxChats)
    /\ InitLog(0)
    /\ request_count = [ip \in Ips |-> 0]

\* the steps a request takes on its own once it runs: the code between two awaits.
\* The arrival of a request, of its body and of the vendor's answer are left to
\* the network and get no fairness
LockSpec ==
    /\ LockInit
    /\ [][LockNext]_vars
    /\ \A r \in Reqs :
           /\ WF_vars(\E b \in LockBodies : ChatCheck(r, b))
           /\ WF_vars(IncAcquire(r)) /\ WF_vars(IncCheck(r)) /\ WF_vars(IncRead(r))
           /\ WF_vars(IncWrite(r)) /\ WF_vars(IncReturn(r))
           /\ WF_vars(GetAcquire(r)) /\ WF_vars(GetCheck(r)) /\ WF_vars(GetRead(r))
           /\ WF_vars(GetReturn(r))
           /\ WF_vars(LogAcquire(r)) /\ WF_vars(LogAppend(r)) /\ WF_vars(LogTrim(r))

\* adapter calls, one at a time
AdapterNext ==
    \/ \E h \in ({"fireworks", "openrouter"}), key \in BOOLEAN : \E request_data \in ClientRequests(h) :
           AdapterSend(h, request_data, key)
    \/ \E h \in ({"gemini-pro", "ob-gemini"}), v \in GeminiAnswers, n \in ({0, 7, 9}), i \in ({0, 1}) :
           AdapterAnswer(h, v, n, i)
    \/ AdapterReturn

AdapterInit == InitWith({[h \in Handlers |-> TRUE]}, 0) /\ InitLog(0) /\ request_count = [ip \in Ips |-> 0]

AdapterSpec == AdapterInit /\ [][AdapterNext]_vars

\* one relay over one vendor stream
RelayNext ==
    \/ \E h \in ({"gemini-pro", "fireworks"}) : RelayStart(h)
    \/ \E o \in {"ok", "RequestError", "HTTPStatusError"} : RelayConnect(o)
    \/ \E l \in VendorLines : RelayLine(l)
    \/ RelayEof
    \/ \E k \in {"RequestError", "Exception"} : RelayFail(k)
    \/ RelayDisconnect

RelayInit == InitWith({[h \in Handlers |-> TRUE]}, 0) /\ InitLog(0) /\ request_count = [ip \in Ips |-> 0]

RelaySpec == RelayInit /\ [][RelayNext]_vars

ChatDone(r) == pc[r] = "done" /\ reply[r].kind = "chat"
ArgPair(p) == <<arg[p].user, arg[p].service>>
ChatCount(u) == UsageOf(user_daily_usage, u, "chat")
\* the count a ledger access made now would find
DayUsage(u, s) == IF today # current_day THEN 0 ELSE UsageOf(user_daily_usage, u, s)

\* C1: when no increment_usage call is inside its critical section, the count of
\* every (user, service) equals the number of increment calls completed on it
\* since the last reset, and the values those calls returned are exactly 1..N
C1_NoLostUpdate ==
    (\A p \in Procs : ~(pc[p] \in {"inc_check", "inc_read", "inc_write", "inc_ret"})) =>
        \A k \in Pairs :
            /\ UsageOf(user_daily_usage, k[1], k[2]) = Len(returned[k])
            /\ RangeOf(returned[k]) = 1..Len(returned[k])

\* C1 witness: every call of the threads has returned and MaxOps of them were
\* made on one pair
C1_Witness ==
    /\ budget = 0
    /\ \A p \in LThreads : pc[p] = "idle"
    /\ \E k \in Pairs : Len(returned[k]) = MaxOps /\ UsageOf(user_daily_usage, k[1], k[2]) = MaxOps

\* C2: get_usage_for_service returns the number N of increments completed on the
\* pair since the last reset, and the quota endpoint answers a non-pro principal
\* with used = N and remaining = max(0, limit - N), which is never negative
C2_UsageAndRemaining ==
    /\ [](\A p \in Procs : pc[p] = "get_ret" => ret[p] = Len(returned[ArgPair(p)]))
    /\ [][\A r \in Reqs :
            (pc[r] = "get_ret" /\ pc'[r] = "done") =>
                LET n == Len(returned[<<principal[r].id, "chat">>])
                    left == QUOTA_LIMITS["chat"] - n
                IN /\ reply'[r].used = n
                   /\ reply'[r].remaining = (IF left > 0 THEN left ELSE 0)
                   /\ reply'[r].remaining >= 0]_vars

\* C2 witness: a non-pro principal whose count is above the limit is answered
\* remaining = 0
C2_Witness ==
    \E r \in Reqs :
        /\ pc[r] = "done"
        /\ reply[r].kind = "quota"
        /\ ~principal[r].is_pro
        /\ reply[r].used > QUOTA_LIMITS["chat"]
        /\ reply[r].remaining = 0

\* C3: the ledger holds counts of the marker's day only: the first access after a
\* date change sets the marker to the new date and clears every record, and from
\* then on a pair not incremented under the new marker reads 0
C3_GlobalReset ==
    /\ [](\A k \in Pairs : incDay[k] # current_day => UsageOf(user_daily_usage, k[1], k[2]) = 0)
    /\ [](\A p \in Procs : (pc[p] = "get_ret" /\ incDay[ArgPair(p)] # current_day) => ret[p] = 0)
    /\ [][\A p \in Procs :
            (pc[p] \in {"inc_check", "get_check"} /\ pc'[p] # pc[p]) =>
                /\ current_day' = today
                /\ (today # current_day => user_daily_usage' = EmptyDict)]_vars

\* C3 witness: on day 2 a read of a pair that was counted on day 1 returns 0
C3_Witness ==
    /\ current_day = 2
    /\ \E p \in Procs :
          /\ pc[p] = "get_ret"
          /\ incDay[ArgPair(p)] = 1
          /\ ret[p] = 0

\* C4: the quota gate answers a non-pro principal whose chat usage has reached the
\* limit with 429, without an increment and without invoking the adapter; below
\* the limit the request goes on to increment_usage, which raises the count by
\* exactly one, and the adapter is invoked only after that one increment
C4_QuotaGate ==
    /\ [][\A r \in Reqs :
            (pc[r] = "check" /\ pc'[r] # "check" /\ ~principal[r].is_pro) =>
                IF DayUsage(principal[r].id, "chat") >= QUOTA_LIMITS["chat"]
                THEN /\ pc'[r] = "done"
                     /\ reply'[r].status = 429
                     /\ ~invoked'[r]
                     /\ incs'[r] = 0
                     /\ UsageOf(user_daily_usage', principal[r].id, "chat") = DayUsage(principal[r].id, "chat")
                ELSE /\ pc'[r] = "inc_lock"
                     /\ incs'[r] = 0]_vars
    /\ [][\A r \in Reqs :
            (pc[r] = "inc_write" /\ pc'[r] = "inc_ret") =>
                UsageOf(user_daily_usage', principal[r].id, "chat") = ChatCount(principal[r].id) + 1]_vars
    /\ [](\A r \in Reqs : (invoked[r] \/ pc[r] \in {"await_json", "await_vendor"}) => incs[r] = 1)

\* C4 witness: one request of a non-pro principal was admitted, counted once and
\* waits for the vendor, and another one of a principal at the limit got 429
C4_Witness ==
    \E r1 \in Reqs, r2 \in Reqs :
        /\ pc[r1] = "await_vendor" /\ ~principal[r1].is_pro /\ invoked[r1] /\ incs[r1] = 1
        /\ ChatDone(r2) /\ ~principal[r2].is_pro /\ reply[r2].status = 429
        /\ ~invoked[r2] /\ incs[r2] = 0
        /\ ChatCount(principal[r2].id) = QUOTA_LIMITS["chat"]

\* the request of r names a model that resolves to a pro-only ModelInfo and its
\* principal is not pro
ProRequest(r) ==
    /\ body[r].set /\ body[r].json_ok /\ ~principal[r].is_pro
    /\ SelectHandler(body[r].model) # NoHandler
    /\ ModelInfo(SelectHandler(body[r].model), body[r].model).pro

UnknownModel(r) ==
    /\ body[r].set /\ body[r].json_ok /\ body[r].model # ""
    /\ SelectHandler(body[r].model) = NoHandler

C9_TransportFailure ==
    \A r \in Reqs :
        (pc[r] = "done" /\ outcome[r].kind = "RequestError") =>
            (reply[r].status = 503 /\ incs[r] = 1)

\* C9 witness: a request is answered 503 after a transport failure
C9_Witness ==
    \E r \in Reqs :
        /\ pc[r] = "done" /\ outcome[r].kind = "RequestError"
        /\ reply[r].status = 503 /\ incs[r] = 1 /\ called[r]

\* C10 as claimed: a vendor status S outside 2xx is answered with S when S is an
\* error code (4xx, 5xx) and with 502 otherwise
C10_Claim ==
    \A r \in Reqs :
        (pc[r] = "done" /\ outcome[r].kind = "status" /\ (outcome[r].code < 200 \/ outcome[r].code >= 300)) =>
            reply[r].status = (IF outcome[r].code >= 400 /\ outcome[r].code <= 599
                               THEN outcome[r].code ELSE 502)

\* C11 as claimed: a request whose adapter met an unexpected exception is answered
\* 500 with the generic message, which carries no text of the exception
C11_Claim ==
    LET \* the adapter of r met an exception it does not anticipate: a ValueError of its
        \* own validation, or an exception of the outbound call caught by its catch-all
        UnexpectedError(r) ==
            /\ invoked[r]
            /\ \/ outcome[r].kind = "BadJSON"
               \/ /\ outcome[r] = NoOutcome
                  /\ HandlePrefix(handler[r], body[r], api_key[handler[r]]).kind = "raise"
                  /\ HandlePrefix(handler[r], body[r], api_key[handler[r]]).exc.kind = "ValueError"
    IN
    \A r \in Reqs :
        (ChatDone(r) /\ UnexpectedError(r)) =>
            (reply[r].status = 500 /\ reply[r].detail = "generic")

\* C12: a handler constructed without its credential raises ConfigError from every
\* handle_request, streaming or not, before anything else: the request is answered
\* 500 and no outbound call is made for it
C12_MissingCredential ==
    /\ \A h \in Handlers, b \in Bodies : HandlePrefix(h, b, FALSE) = Raise(ConfigError)
    /\ \A r \in Reqs :
          (invoked[r] /\ ~api_key[handler[r]]) =>
              /\ ChatDone(r)
              /\ reply[r].status = 500
              /\ ~called[r]
              /\ outcome[r] = NoOutcome

\* C12 witness: a streaming request reached a handler without credential and was
\* answered 500 with no outbound call
C12_Witness ==
    \E r \in Reqs :
        /\ ChatDone(r) /\ invoked[r] /\ ~api_key[handler[r]]
        /\ body[r].stream /\ handler[r] = "fireworks"
        /\ reply[r].status = 500 /\ ~called[r]

RelayClosed == rpc \in {"eof", "failed"}
\* the frames that came from vendor line j
FramesOf(j) == SelectSeq(frames, LAMBDA f : f.src = j)
\* no line before line j ended the generator
ReachedLine(j) == \A k \in 1..(j - 1) : ~StreamLine(relayOf, arrived[k]).abort

\* C13 as claimed: once a vendor stream that delivered lines is over, normally or
\* by a failure, the last frame sent is `data: [DONE]` and it was sent exactly once
C13_Claim ==
    (RelayClosed /\ Len(arrived) >= 1) =>
        /\ Len(frames) >= 1
        /\ frames[Len(frames)].data = DoneFrame
        /\ Len(SelectSeq(frames, LAMBDA f : f.data = DoneFrame)) = 1

\* C14: the frames that come from vendor lines are sent in the order the lines
\* arrived: each is the frame its line translates to, a later frame never comes
\* from an earlier line, and no line's frame is sent twice
C14_ArrivalOrder ==
    /\ \A i \in 1..Len(frames) :
          frames[i].src # 0 =>
              /\ frames[i].src \in 1..Len(arrived)
              /\ <<frames[i].data>> = StreamLine(relayOf, arrived[frames[i].src]).yield
    /\ \A i \in 1..Len(frames), j \in 1..Len(frames) :
          (i < j /\ frames[j].src # 0) => (frames[i].src # 0 /\ frames[i].src < frames[j].src)

\* C14 witness: a finished stream whose first two lines each produced a frame
C14_Witness ==
    /\ RelayClosed
    /\ Len(frames) >= 2
    /\ frames[1].src = 1 /\ frames[2].src = 2
    /\ frames[1].data # frames[2].data

\* C15: a vendor line that is not JSON does not end the stream: the structured
\* relay yields nothing for it, the pass-through relay forwards it as it is, the
\* generator goes on reading, and every later well-formed line the generator
\* reaches still yields its frame
C15_MalformedLine ==
    /\ [][(rpc = "lines" /\ Len(arrived') = Len(arrived) + 1
           /\ arrived'[Len(arrived')].kind = "malformed") =>
              /\ rpc' = "lines"
              /\ frames' = IF relayOf = "gemini-pro" THEN frames
                           ELSE Append(frames, [src |-> Len(arrived'),
                                                data |-> ([kind |-> "raw", payload |-> (arrived'[Len(arrived')])])])]_vars
    /\ [](\A i \in 1..Len(arrived), j \in 1..Len(arrived) :
            (/\ i < j
             /\ arrived[i].kind = "malformed"
             /\ arrived[j].kind = "chunk"
             /\ (relayOf = "gemini-pro" => arrived[j].candidates # <<>>)
             /\ ReachedLine(j)) =>
                /\ Len(FramesOf(j)) = 1
                /\ FramesOf(j)[1].data.kind = IF relayOf = "gemini-pro" THEN "chunk" ELSE "json")

\* C15 witness: the structured relay skipped a malformed line and translated the
\* chunk that came after it
C15_Witness ==
    /\ relayOf = "gemini-pro"
    /\ Len(arrived) = 2
    /\ arrived[1].kind = "malformed"
    /\ arrived[2].kind = "chunk"
    /\ Len(frames) >= 1
    /\ frames[1].src = 2 /\ frames[1].data.kind = "chunk"

\* the texts of the parts of a candidate that have one, in order
TextsOf(c) == SelectSeq(c.parts, LAMBDA q : q.has_text)
\* s is the concatenation of the first n of the texts ts
RECURSIVE Joined(_, _, _)
Joined(s, ts, n) ==
    IF n = 0 THEN s = ""
    ELSE \E t \in {"", "Hel", "Hi", "other"} : s = t \o ts[n].text /\ Joined(t, ts, n - 1)

\* C16: the structured relay turns every line with a non-empty candidates list into
\* exactly one chunk: delta.content is the concatenation of the text parts of the
\* first candidate and is absent when that is empty, finish_reason is the mapped
\* finishReason of the first candidate and is absent when there is none; a line
\* with text "Hi" and a line with finishReason "STOP" followed by the end of the
\* stream give a chunk with content "Hi", a chunk with finish_reason "stop" and
\* `data: [DONE]`
C16_UnifiedChunks ==
    /\ relayOf = "gemini-pro" =>
          \A j \in 1..Len(arrived) :
              (arrived[j].kind = "chunk" /\ arrived[j].candidates # <<>> /\ ReachedLine(j)) =>
                  /\ Len(FramesOf(j)) = 1
                  /\ LET f == FramesOf(j)[1].data
                         c == arrived[j].candidates[1]
                     IN /\ f.kind = "chunk"
                        /\ Joined(f.content, TextsOf(c), Len(TextsOf(c)))
                        /\ f.has_content = (f.content # "")
                        /\ f.has_finish = (c.finishReason # "")
                        /\ f.finish_reason =
                              (CASE c.finishReason = "" -> ""
                                 [] c.finishReason = "MAX_TOKENS" -> "length"
                                 [] c.finishReason = "SAFETY" -> "content_filter"
                                 [] OTHER -> "stop")
    /\ (/\ relayOf = "gemini-pro"
        /\ rpc = "eof"
        /\ Len(arrived) = 2
        /\ arrived[1].kind = "chunk" /\ arrived[1].candidates = <<Candidate(<<TextPart("Hi")>>, "")>>
        /\ arrived[2].kind = "chunk" /\ arrived[2].candidates = <<Candidate(<<>>, "STOP")>>) =>
            /\ Len(frames) = 3
            /\ frames[1].data = [kind |-> "chunk", has_content |-> TRUE, content |-> "Hi",
                                 has_finish |-> FALSE, finish_reason |-> ""]
            /\ frames[2].data = [kind |-> "chunk", has_content |-> FALSE, content |-> "",
                                 has_finish |-> TRUE, finish_reason |-> "stop"]
            /\ frames[3].data = DoneFrame

\* C16 witness: the stream of the example is over and its three frames were sent
C16_Witness ==
    /\ relayOf = "gemini-pro"
    /\ rpc = "eof"
    /\ Len(arrived) = 2
    /\ arrived[1].candidates = <<Candidate(<<TextPart("Hi")>>, "")>>
    /\ arrived[2].candidates = <<Candidate(<<>>, "STOP")>>
    /\ Len(frames) = 3
    /\ frames[1].data.content = "Hi"
    /\ frames[2].data.finish_reason = "stop"

\* the place of handler h in the registration order
OrderOf(h) == CHOOSE i \in DOMAIN HandlerOrder : HandlerOrder[i] = h
\* the handlers that declare model m
Declaring(m) == {h \in Handlers : \E i \in DOMAIN HandlerModels[h] : HandlerModels[h][i].name = m}

\* C17: the handler selected for a request is the first one, in registration
\* order, that declares the model: the only one when the names are disjoint, and
\* for a name declared twice the first-registered one, whose own entry for the
\* model decides whether a non-pro principal is refused
C17_ResolveOrder ==
    \A r \in Reqs :
        (ChatDone(r) /\ body[r].set /\ incs[r] = 1 /\ ParseStatus(body[r]) = 0) =>
            LET m == body[r].model
                h == handler[r]
            IN /\ (h = NoHandler) = (Declaring(m) = {})
               /\ h # NoHandler =>
                     /\ h \in Declaring(m)
                     /\ \A g \in Declaring(m) : OrderOf(h) <= OrderOf(g)
                     /\ (Cardinality(Declaring(m)) = 1 => Declaring(m) = {h})
                     /\ ~invoked[r] =
                           (/\ ~principal[r].is_pro
                            /\ \E i \in DOMAIN HandlerModels[h] :
                                  HandlerModels[h][i].name = m /\ HandlerModels[h][i].pro)
                     /\ (~invoked[r] => reply[r].status = 403)

\* C17 witness: a model declared by the gemini handler (free) and by the gemini-pro
\* handler (pro) is served to a non-pro principal by the gemini handler
C17_Witness ==
    \E r \in Reqs :
        /\ ChatDone(r) /\ ~principal[r].is_pro
        /\ Cardinality(Declaring(body[r].model)) = 2
        /\ handler[r] = "gemini"
        /\ invoked[r] /\ reply[r].status = 200

\* C18: whenever no recording is in progress the audit log holds at most
\* METRICS_CAP entries, and they are exactly the most recent entries ever
\* recorded, in recording order: the oldest one is dropped when a recording
\* would exceed the capacity (inside a recording the list is one longer at most)
C18_RingBuffer ==
    /\ Len(metrics) <= METRICS_CAP + 1
    /\ metrics_lock = NoProc =>
          /\ Len(metrics) <= METRICS_CAP
          /\ Len(metrics) = (IF Len(logged) < METRICS_CAP THEN Len(logged) ELSE METRICS_CAP)
          /\ metrics = SubSeq(logged, Len(logged) - Len(metrics) + 1, Len(logged))

\* C18 witness: two threads recorded past the capacity: the log is full and its
\* oldest entry is the third one ever recorded
C18_Witness ==
    /\ metrics_lock = NoProc
    /\ \A t \in LThreads : pc[t] = "idle"
    /\ Len(logged) = METRICS_CAP + 2
    /\ Len(metrics) = METRICS_CAP
    /\ metrics[1] = logged[3]
    /\ metrics[METRICS_CAP] = logged[METRICS_CAP + 2]

\* C19: a pro principal is not held to the free chat limit: with a count at or
\* above QUOTA_LIMITS["chat"] and below the pro ceiling the gate admits the
\* request, which is counted and goes on to its adapter like any other; the
\* ceiling is its own value, higher than the free limit
C19_ProBypass ==
    /\ [](PRO_LIMIT > QUOTA_LIMITS["chat"] /\ UsageLimit("chat", TRUE) = PRO_LIMIT)
    /\ [][\A r \in Reqs :
            (/\ pc[r] = "check" /\ pc'[r] # "check"
             /\ principal[r].is_pro
             /\ DayUsage(principal[r].id, "chat") >= QUOTA_LIMITS["chat"]
             /\ DayUsage(principal[r].id, "chat") < PRO_LIMIT) =>
                (pc'[r] = "inc_lock" /\ reply'[r] = NoReply)]_vars
    /\ [](\A r \in Reqs :
            (ChatDone(r) /\ principal[r].is_pro /\ ChatCount(principal[r].id) < PRO_LIMIT) =>
                (incs[r] = 1 /\ (reply[r].status = 429 => invoked[r])))

\* C19 witness: a pro principal whose count had reached the free limit was admitted
\* and its adapter was invoked
C19_Witness ==
    \E r \in Reqs :
        /\ principal[r].is_pro
        /\ invoked[r] /\ incs[r] = 1
        /\ ChatCount(principal[r].id) > QUOTA_LIMITS["chat"]
        /\ ChatCount(principal[r].id) < PRO_LIMIT

\* C20: a request of the community server whose quota lookup or update raised a
\* database error is answered 429 like one whose quota is used up: it never
\* reaches its adapter, and the count of its IP is as it was
C20_FailClosed ==
    creq.failed =>
        /\ creq.pc = "done"
        /\ creq.status = 429
        /\ ~creq.invoked
        /\ request_count[creq.ip] = creq.before

\* C20 witness: an IP with quota left is answered 429 because the database failed
C20_Witness ==
    /\ creq.failed
    /\ creq.pc = "done"
    /\ creq.status = 429
    /\ request_count[creq.ip] < FREE_QUOTA

\* C23: a step of increment(u, s) that observes no day change leaves the count
\* of every pair other than (u, s) unchanged; the only step that changes the
\* count of (u, s) raises it by exactly one.
C23_IncrementFrame ==
    [][\A p \in Procs :
          ((pc[p] \in {"inc_check", "inc_read", "inc_write", "inc_ret"}) /\ (pc'[p] # pc[p]) /\ ~(pc[p] = "inc_check" /\ today # current_day))
          => /\ \A k \in Pairs :
                  k # ArgPair(p)
                  => UsageOf(user_daily_usage', k[1], k[2]) = UsageOf(user_daily_usage, k[1], k[2])
             /\ LET own == UsageOf(user_daily_usage, arg[p].user, arg[p].service)
                    own2 == UsageOf(user_daily_usage', arg[p].user, arg[p].service)
                IN IF pc[p] = "inc_write" THEN own2 = own + 1 ELSE own2 = own]_vars

\* an increment has written its pair while another pair of the same user and
\* a pair of another user hold counts
C23_Witness ==
    \E p \in Procs :
        /\ pc[p] = "inc_ret"
        /\ \E k \in Pairs : k # ArgPair(p) /\ k[1] = arg[p].user /\ DayUsage(k[1], k[2]) > 0
        /\ \E k \in Pairs : k[1] # arg[p].user /\ DayUsage(k[1], k[2]) > 0

\* C24: usageFor changes neither a count nor the day marker when the current
\* date equals the marker, so the value the next increment reads is the one
\* it would have read without the calls
C24_UsageForReadOnly ==
    [][\A p \in Procs :
          ((pc[p] \in {"get_check", "get_read", "get_ret"}) /\ (pc'[p] # pc[p]) /\ today = current_day)
          => /\ user_daily_usage' = user_daily_usage
             /\ current_day' = current_day]_vars

\* usageFor has returned for a pair that holds a count, on the marker's day
C24_Witness ==
    \E p \in Procs :
        /\ pc[p] = "get_ret"
        /\ today = current_day
        /\ ret[p] > 0
        /\ ret[p] = DayUsage(arg[p].user, arg[p].service)

\* C29: while a chat request is between its usage check and the end of its
\* increment no other request takes a step, and the increment of a non-pro
\* request never stores a "chat" count above the chat limit, so within a day
\* no more than the limit of a non-pro principal's requests get past the gate
C29_GateAtomic ==
    [][\A r \in Reqs :
          (pc[r] \in {"check", "inc_lock", "inc_check", "inc_read", "inc_write", "inc_ret"})
          => /\ \A q \in Reqs \ {r} : pc'[q] = pc[q]
             /\ (pc[r] = "inc_write" /\ pc'[r] = "inc_ret" /\ ~principal[r].is_pro)
                => /\ ChatCount(principal[r].id)' <= QUOTA_LIMITS["chat"]
                   /\ cur[r] < QUOTA_LIMITS["chat"]]_vars

\* a non-pro request took the last free credit and is still in flight when a
\* second request of the same principal is refused at the gate
C29_Witness ==
    \E r, q \in Reqs :
        /\ r # q
        /\ pc[q] \in {"await_json", "await_vendor"}
        /\ incs[q] = 1
        /\ ~principal[q].is_pro
        /\ principal[r] = principal[q]
        /\ pc[r] = "done"
        /\ reply[r].status = 429
        /\ ChatCount(principal[r].id) = QUOTA_LIMITS["chat"]

\* C28 as claimed: every chunk the gemini-pro relay makes from a vendor line that
\* carries a finishReason has the finish_reason the non-streaming path gives to
\* the same vendor value
C28_Claim ==
    relayOf = "gemini-pro" =>
        \A j \in 1..Len(arrived) :
            (/\ arrived[j].kind = "chunk"
             /\ arrived[j].candidates # <<>>
             /\ arrived[j].candidates[1].finishReason # ""
             /\ ReachedLine(j)) =>
                /\ Len(FramesOf(j)) = 1
                /\ FramesOf(j)[1].data.finish_reason =
                      FinishReasonNonStreaming(arrived[j].candidates[1].finishReason)

\* the model ids the vendor puts in its chunks
VendorModelIds == {l.model : l \in {v \in VendorLines : v.kind = "chunk" /\ v.model # ""}}

\* the frame data that forwards line l with only its model field rewritten
Forwarded(l) ==
    CASE l.kind = "chunk" ->
            ([kind |-> "json", payload |-> (IF l.model # "" THEN [l EXCEPT !.model = "llama4-scout"] ELSE l)])
      [] l.kind = "done" -> DoneFrame
      [] OTHER -> ([kind |-> "raw", payload |-> l])

C26_Disconnect ==
    /\ [][rpc' = "cancelled" => frames' = frames]_vars
    /\ [](rpc = "cancelled" => conn # "open")
    /\ [][(rpc # "cancelled" /\ rpc' = "cancelled")
            => UNCHANGED <<ledgerVars, procVars, reqVars, envVars, auditVars, communityVars, logged>>]_vars

\* the client went away after one chunk had been relayed and the vendor
\* connection was open
C26_Witness ==
    /\ rpc = "cancelled"
    /\ conn = "released"
    /\ Len(arrived) = 1
    /\ Len(frames) = 1
    /\ frames[1].data.kind \in {"chunk", "json"}

\* C25 as claimed, for a streaming request: when the stream is over exactly one
\* audit entry was recorded for it, and that entry says 200 only if the client
\* got a stream without an error frame
C25_Claim ==
    RelayClosed =>
        /\ Len(metrics) = 1
        /\ (metrics[1].status_code = 200) <=> ~(\E i \in 1..Len(frames) : frames[i].data.kind = "error")

\* C30: no request holds the quota lock and the audit lock at the same time,
\* a suspended request holds neither, every ledger or audit operation that has
\* reached its `with` statement gets the lock, and a request that has reached
\* its quota check finishes the check and the increment, whatever the vendor
\* calls of other requests do
C30_LocksIndependent ==
    /\ [](\A p \in Procs : ~((lock = p) /\ (metrics_lock = p)))
    /\ [](\A r \in Reqs : (pc[r] \in {"await_json", "await_vendor"}) => ~(lock = r) /\ ~(metrics_lock = r))
    /\ \A r \in Reqs :
          /\ (pc[r] = "inc_lock") ~> (lock = r)
          /\ (pc[r] = "get_lock") ~> (lock = r)
          /\ (pc[r] = "log_lock") ~> (metrics_lock = r)
          /\ (pc[r] = "check") ~> (pc[r] \in {"await_json", "done"})
          /\ (pc[r] = "log_lock") ~> (pc[r] = "done")

\* one request is suspended on its vendor call while another one, holding the
\* audit lock, has appended its audit entry
C30_Witness ==
    \E r, q \in Reqs :
        /\ r # q
        /\ pc[q] = "await_vendor"
        /\ (metrics_lock = r)
        /\ pc[r] = "log_trim"
        /\ Len(metrics) >= 1

\* C21 as claimed: a response built from a vendor answer carries the text the
\* adapter produced as its content, and its total_tokens is the sum of its
\* prompt_tokens and completion_tokens
C21_Claim ==
    LET \* the text gemini-pro makes of the vendor's answer
        ProducedText(h, v) ==
            IF h = "gemini-pro"
            THEN IF v.candidates # <<>> THEN Strip(JoinTexts(v.candidates[1].parts))
                 ELSE IF v.blockReason # <<>> THEN BlockedText(v.blockReason) ELSE <<>>
            ELSE IF v.candidates # <<>> THEN JoinTexts(v.candidates[1].parts) ELSE ParseErrorText
    IN
    adapter.pc = "answered" =>
        /\ adapter.response.content = ProducedText(adapter.handler, adapter.vendor)
        /\ adapter.response.usage.total_tokens =
              adapter.response.usage.prompt_tokens + adapter.response.usage.completion_tokens

\* C22: the payload a pass-through adapter sends has the mapped vendor id as its
\* model, every other key of the client's request with the client's value, and
\* beyond those exactly the defaults for the keys the client did not send; the
\* caller's request is what it was and carries the display name
C22_PayloadPassThrough ==
    adapter.pc = "sent" =>
        LET h == adapter.handler
            sent == adapter.sent
            payload == adapter.payload
        IN /\ payload["model"] = ModelMap(h)[sent["model"]]
           /\ \A k \in DOMAIN sent \ {"model"} : payload[k] = sent[k]
           /\ DOMAIN payload = DOMAIN sent \cup DOMAIN (IF h = "fireworks" THEN (("max_tokens" :> "16384") @@ ("top_p" :> "1") @@ ("top_k" :> "40") @@ ("presence_penalty" :> "0") @@ ("frequency_penalty" :> "0") @@ ("temperature" :> "0.6")) ELSE <<>>)
           /\ \A k \in DOMAIN payload \ DOMAIN sent : payload[k] = (IF h = "fireworks" THEN (("max_tokens" :> "16384") @@ ("top_p" :> "1") @@ ("top_k" :> "40") @@ ("presence_penalty" :> "0") @@ ("frequency_penalty" :> "0") @@ ("temperature" :> "0.6")) ELSE <<>>)[k]
           /\ adapter.request = sent
           /\ adapter.request["model"] \in DOMAIN ModelMap(h)

\* the fireworks adapter has sent a payload for a request that set some
\* parameters and left others to the defaults
C22_Witness ==
    /\ adapter.pc = "sent"
    /\ adapter.handler = "fireworks"
    /\ "max_tokens" \in DOMAIN adapter.sent
    /\ adapter.payload["max_tokens"] = "256"
    /\ "temperature" \notin DOMAIN adapter.sent
    /\ adapter.payload["temperature"] = "0.6"
    /\ adapter.payload["model"] = "accounts/fireworks/models/llama4-scout-instruct-basic"
    /\ adapter.request["model"] = "llama4-scout"

====
